---- MODULE Spec2Model ----
(***************************************************************************)
(* Duty Rotation Scheduler (DutyAgent): the schedule generator, the fair   *)
(* assignment pass, the recount pass, the roster/schedule handlers, the    *)
(* React effects that tie them together and the CSV codec, as a state      *)
(* machine over the component's state.                                     *)
(*                                                                         *)
(* A Date that holds a UTC midnight is modelled by its day number (days    *)
(* since 1970-01-01); NaN is the invalid Date.  Text is a sequence of      *)
(* one-character strings.                                                  *)
(***************************************************************************)
EXTENDS Integers, Sequences, FiniteSets, TLC

(***************************************************************************)
(* Bounds of the model and program constants                               *)
(***************************************************************************)
\* first year of the year <select> (currentYear - 6)
BaseYear == 2019
\* const SCHEDULE_YEAR_RANGE = 13
SCHEDULE_YEAR_RANGE == 13
\* const MAX_PEOPLE = 20
MAX_PEOPLE == 20
\* the invalid Date (getTime() is NaN); every comparison with it is false
NaN == -1

Years == BaseYear .. (BaseYear + SCHEDULE_YEAR_RANGE - 1)
\* const currentYear = new Date().getFullYear(): the middle of the <select>
currentYear == BaseYear + (SCHEDULE_YEAR_RANGE \div 2)

(***************************************************************************)
(* ECMAScript Date arithmetic on day numbers                               *)
(***************************************************************************)
\* days from 0000-03-01 to the first day of month m (zero-based) of year y,
\* the year taken to start in March
DaysBeforeMonth(yy, mp) ==
  (yy \div 400) * 146097
  + (yy % 400) * 365 + (yy % 400) \div 4 - (yy % 400) \div 100
  + (153 * mp + 2) \div 5

\* Date.UTC(y, m, d) / msPerDay, m zero-based, d may lie outside the month
\* (MakeDay carries it over)
DateUTC(y, m, d) ==
  DaysBeforeMonth(IF m < 2 THEN y - 1 ELSE y, IF m < 2 THEN m + 10 ELSE m - 2)
  - 719468 + (d - 1)

\* the civil date from the era, the year of the era, the day of the year
\* (from 1 March) and the month (from March)
CivilOfMonth(era, yoe, doy, mp) ==
  [y |-> yoe + era * 400 + (IF mp >= 10 THEN 1 ELSE 0),
   m |-> IF mp < 10 THEN mp + 2 ELSE mp - 10,
   d |-> doy - (153 * mp + 2) \div 5 + 1]
CivilOfDay(era, yoe, doy) == CivilOfMonth(era, yoe, doy, (5 * doy + 2) \div 153)
CivilOfYear(era, doe, yoe) ==
  CivilOfDay(era, yoe, doe - (365 * yoe + yoe \div 4 - yoe \div 100))
CivilOfEra(era, doe) ==
  CivilOfYear(era, doe,
              (doe - doe \div 1460 + doe \div 36524 - doe \div 146096) \div 365)
\* the civil date of a day number: [y, m (zero-based), d]
Civil(t) == CivilOfEra((t + 719468) \div 146097, (t + 719468) % 146097)

getUTCFullYear(t) == Civil(t).y
getUTCMonth(t) == Civil(t).m
getUTCDate(t) == Civil(t).d
\* 1970-01-01 was a Thursday (4); 0 = Sunday
getUTCDay(t) == (t + 4) % 7
\* date.setUTCDate(n): day n of the date's own UTC month, carried over
setUTCDate(t, n) == DateUTC(getUTCFullYear(t), getUTCMonth(t), n)

\* comparisons of Date objects: false as soon as one side is NaN
DateLE(a, b) == a # NaN /\ b # NaN /\ a <= b
DateGE(a, b) == a # NaN /\ b # NaN /\ a >= b

(***************************************************************************)
(* The component's state                                                   *)
(***************************************************************************)
VARIABLES
  year,               \* useState<number>(currentYear)
  startDayOfWeek,     \* 0 = Sunday .. 6 = Saturday
  startMonth,         \* 0 = January .. 11 = December
  people,             \* Person[]: sequence of [id, name, leave]
  schedule,           \* Week[]
  holidays,           \* Holiday[]: sequence of [date, name]
  isLoadingHolidays,
  holidayError,       \* TRUE when an error message is set
  holidayCounts,      \* id -> [total, holiday]
  tz,                 \* the host's time zone: local calendar day minus UTC
                      \* calendar day at a UTC midnight (-1 west of UTC, else 0)
  changed,            \* the state slots set since the last effect flush
  fetches,            \* the holiday fetches in flight (the year each asked for)
  csvText,            \* the last exported CSV file
  last,               \* history: what the last step did
  budget              \* user events still allowed (bounds the model)

vars == <<year, startDayOfWeek, startMonth, people, schedule, holidays,
          isLoadingHolidays, holidayError, holidayCounts, tz, changed,
          fetches, csvText, last, budget>>

(***************************************************************************)
(* assignedTo: number | string | null                                      *)
(***************************************************************************)
\* s is the text of a string value
Num(i) == [t |-> "number", n |-> i, s |-> <<>>]
Str(x) == [t |-> "string", n |-> 0, s |-> x]
Null == [t |-> "null", n |-> 0, s |-> <<>>]
HolidayPeriodText == <<"H", "o", "l", "i", "d", "a", "y", " ", "P", "e", "r", "i", "o", "d">>
NoOneAvailableText ==
  <<"N", "o", " ", "o", "n", "e", " ", "a", "v", "a", "i", "l", "a", "b", "l", "e">>
UnassignedText == <<"U", "n", "a", "s", "s", "i", "g", "n", "e", "d">>
UnknownPersonText == <<"U", "n", "k", "n", "o", "w", "n", " ", "P", "e", "r", "s", "o", "n">>
HolidayPeriod == Str(HolidayPeriodText)
NoOneAvailable == Str(NoOneAvailableText)

(***************************************************************************)
(* Local-time getters: the host's calendar day of a UTC midnight           *)
(***************************************************************************)
getFullYear(t) == Civil(t + tz).y
getMonth(t) == Civil(t + tz).m
getDate(t) == Civil(t + tz).d
\* new Date(Date.UTC(d.getFullYear(), d.getMonth(), d.getDate()))
LocalPartsAsUTC(t) == DateUTC(getFullYear(t), getMonth(t), getDate(t))

(***************************************************************************)
(* Calendar helpers                                                        *)
(***************************************************************************)
\* the Monday search without its Sunday case
getMondayBeforeSundayForward(date) ==
  setUTCDate(date, getUTCDate(date) + (1 - getUTCDay(date)))

\* the Monday search that leaves a Monday for the one before it
getMondayBeforeStrictly(date) ==
  LET dayOfWeek == getUTCDay(date)
      diff == IF dayOfWeek <= 1 THEN -6 - dayOfWeek ELSE 1 - dayOfWeek
  IN  setUTCDate(date, getUTCDate(date) + diff)

getMondayBefore(date) ==
  LET dayOfWeek == getUTCDay(date)
      diff == IF dayOfWeek = 0 THEN -6 ELSE 1 - dayOfWeek
  IN  setUTCDate(date, getUTCDate(date) + diff)

\* the Friday search that leaves a Friday for the next one
getFridayAfterStrictly(date) ==
  LET dayOfWeek == getUTCDay(date)
      diff == IF dayOfWeek >= 5 THEN 12 - dayOfWeek ELSE 5 - dayOfWeek
  IN  setUTCDate(date, getUTCDate(date) + diff)

\* the Friday search without its Saturday case
getFridayAfterSaturdayBack(date) ==
  setUTCDate(date, getUTCDate(date) + (5 - getUTCDay(date)))

getFridayAfter(date) ==
  LET dayOfWeek == getUTCDay(date)
      diff == IF dayOfWeek = 6 THEN 6 ELSE 5 - dayOfWeek
  IN  setUTCDate(date, getUTCDate(date) + diff)

\* [start, end], or NaN fields when a computation is invalid (never, here)
getHolidayPeriod(scheduleYear) ==
  LET christmas == DateUTC(scheduleYear, 11, 25)
      newYear == DateUTC(scheduleYear + 1, 0, 1)
  IN  [start |-> getMondayBefore(christmas), end |-> getFridayAfter(newYear)]

\* the test with containment in the period in the place of overlap
isWeekInHolidayPeriodContained(weekStartDate, weekEndDate, scheduleYear) ==
  LET holidayPeriod == getHolidayPeriod(scheduleYear)
  IN  /\ holidayPeriod.start # NaN
      /\ holidayPeriod.end # NaN
      /\ DateGE(weekStartDate, holidayPeriod.start)
      /\ DateLE(weekEndDate, holidayPeriod.end)

isWeekInHolidayPeriod(weekStartDate, weekEndDate, scheduleYear) ==
  LET holidayPeriod == getHolidayPeriod(scheduleYear)
  IN  /\ holidayPeriod.start # NaN
      /\ holidayPeriod.end # NaN
      /\ DateLE(weekStartDate, holidayPeriod.end)
      /\ DateGE(weekEndDate, holidayPeriod.start)

weekContainsHoliday(startDate, endDate, holidayList) ==
  \E i \in 1..Len(holidayList) :
    LET holidayDate == holidayList[i].date
        startUTC == LocalPartsAsUTC(startDate)
        endUTC == LocalPartsAsUTC(endDate)
    IN  DateGE(holidayDate, startUTC) /\ DateLE(holidayDate, endUTC)

(***************************************************************************)
(* generateSchedule: the anchor search and the emission loop               *)
(***************************************************************************)
RECURSIVE AnchorTraceOneBasedWeekday(_, _, _, _, _)
\* the anchor search reading the start weekday as counted from 1
AnchorTraceOneBasedWeekday(date, yr, sm, sd, steps) ==
  IF getUTCDay(date) = sd + 1
  THEN [date |-> date, steps |-> steps, fallback |-> FALSE]
  ELSE LET next == setUTCDate(date, getUTCDate(date) + 1)
       IN  IF getUTCFullYear(next) > yr
              \/ (getUTCFullYear(next) = yr /\ getUTCMonth(next) > sm)
           THEN LET first == DateUTC(yr, sm, 1)
                    dayDiff == (sd - getUTCDay(first) + 7) % 7
                IN  [date |-> setUTCDate(first, getUTCDate(first) + dayDiff),
                     steps |-> steps + 1, fallback |-> TRUE]
           ELSE AnchorTraceOneBasedWeekday(next, yr, sm, sd, steps + 1)

RECURSIVE AnchorTrace(_, _, _, _, _)
\* the while loop of lines 276-287, one iteration per unfolding: the date it
\* ends on, the one-day steps taken (steps so far), and whether it left
\* through the branch of lines 279-286
AnchorTrace(date, yr, sm, sd, steps) ==
  IF getUTCDay(date) = sd
  THEN [date |-> date, steps |-> steps, fallback |-> FALSE]
  ELSE LET next == setUTCDate(date, getUTCDate(date) + 1)
       IN  IF getUTCFullYear(next) > yr
              \/ (getUTCFullYear(next) = yr /\ getUTCMonth(next) > sm)
           THEN LET first == DateUTC(yr, sm, 1)
                    dayDiff == (sd - getUTCDay(first) + 7) % 7
                IN  [date |-> setUTCDate(first, getUTCDate(first) + dayDiff),
                     steps |-> steps + 1, fallback |-> TRUE]
           ELSE AnchorTrace(next, yr, sm, sd, steps + 1)

\* the date the while loop of lines 276-287 leaves in date
AnchorScan(date, yr, sm, sd) == AnchorTrace(date, yr, sm, sd, 0).date

\* the anchor search begun on the second day of the month
FirstWeekStartFromSecondDay(yr, sm, sd) ==
  AnchorScan(DateUTC(yr, sm, 2), yr, sm, sd)

FirstWeekStart(yr, sm, sd) == AnchorScan(DateUTC(yr, sm, 1), yr, sm, sd)

\* a week that ends on the day the next one starts
NewWeekEndingOnNextStart(date, yr, holidayList) ==
  [startDate |-> date,
   endDate |-> setUTCDate(date, getUTCDate(date) + 7),
   assignedTo |-> IF isWeekInHolidayPeriod(date, date + 7, yr)
                  THEN HolidayPeriod ELSE Null,
   hasHoliday |-> weekContainsHoliday(date, date + 7, holidayList),
   isHolidayPeriod |-> isWeekInHolidayPeriod(date, date + 7, yr),
   notes |-> <<>>]

NewWeek(date, yr, holidayList) ==
  LET startDate == date
      endDate == setUTCDate(date, getUTCDate(date) + 6)
      isMarkedAsHolidayPeriod == isWeekInHolidayPeriod(startDate, endDate, yr)
  IN  [startDate |-> startDate,
       endDate |-> endDate,
       assignedTo |-> IF isMarkedAsHolidayPeriod THEN HolidayPeriod ELSE Null,
       hasHoliday |-> weekContainsHoliday(startDate, endDate, holidayList),
       isHolidayPeriod |-> isMarkedAsHolidayPeriod,
       notes |-> <<>>]

RECURSIVE EmitWeeksEndingInYear(_, _, _, _)
\* the emission loop run while the week's end date lies in the year
EmitWeeksEndingInYear(date, yr, holidayList, acc) ==
  IF getUTCFullYear(setUTCDate(date, getUTCDate(date) + 6)) = yr
  THEN EmitWeeksEndingInYear(setUTCDate(date, getUTCDate(date) + 7), yr,
                             holidayList,
                             Append(acc, NewWeek(date, yr, holidayList)))
  ELSE acc

RECURSIVE EmitWeeks(_, _, _, _)
\* the while loop of lines 290-312
EmitWeeks(date, yr, holidayList, acc) ==
  IF getUTCFullYear(date) = yr
  THEN EmitWeeks(setUTCDate(date, getUTCDate(date) + 7), yr, holidayList,
                 Append(acc, NewWeek(date, yr, holidayList)))
  ELSE acc

\* newSchedule as it stands at line 313, before the assignment pass
BuildWeeks(yr, sm, sd, holidayList) ==
  EmitWeeks(FirstWeekStart(yr, sm, sd), yr, holidayList, <<>>)

(***************************************************************************)
(* assignPeopleToWeeks: the greedy pass                                    *)
(***************************************************************************)
\* lastAssigned: -Infinity, until the person gets a first week
MinusInfinity == -1

Ids(ppl) == {ppl[k].id : k \in 1..Len(ppl)}

\* people.find(p => p.id === personId): the first match, 0 when there is none
FindPerson(ppl, personId) ==
  IF \E k \in 1..Len(ppl) : ppl[k].id = personId
  THEN CHOOSE k \in 1..Len(ppl) :
         /\ ppl[k].id = personId
         /\ \A j \in 1..(k - 1) : ppl[j].id # personId
  ELSE 0

isPersonOnLeave(personId, startDate, endDate, ppl) ==
  LET k == FindPerson(ppl, personId)
  IN  /\ k # 0
      /\ \E j \in 1..Len(ppl[k].leave) :
           LET leaveStart == ppl[k].leave[j].start
               leaveEnd == ppl[k].leave[j].end
               startUTC == LocalPartsAsUTC(startDate)
               endUTC == LocalPartsAsUTC(endDate)
           IN  DateLE(leaveStart, endUTC) /\ DateGE(leaveEnd, startUTC)

\* people.filter(...): the sub-sequence, in roster order
RECURSIVE FilterAvailable(_, _, _, _)
FilterAvailable(ppl, k, week, all) ==
  IF k > Len(ppl) THEN <<>>
  ELSE (IF isPersonOnLeave(ppl[k].id, week.startDate, week.endDate, all)
        THEN <<>> ELSE <<ppl[k]>>)
       \o FilterAvailable(ppl, k + 1, week, all)

\* x - y on lastAssigned values; -Infinity - -Infinity is NaN, which
\* Array.prototype.sort reads as +0
SubLast(x, y) ==
  IF x = MinusInfinity /\ y = MinusInfinity THEN 0
  ELSE IF x = MinusInfinity THEN -1
  ELSE IF y = MinusInfinity THEN 1
  ELSE x - y

\* the comparator with its first key reversed: most loaded first
CompareMostLoadedFirst(a, b, counts) ==
  IF counts[a.id].total # counts[b.id].total
  THEN counts[b.id].total - counts[a.id].total
  ELSE IF counts[a.id].holiday # counts[b.id].holiday
       THEN counts[a.id].holiday - counts[b.id].holiday
       ELSE SubLast(counts[a.id].lastAssigned, counts[b.id].lastAssigned)

\* the sort comparator of lines 357-363
Compare(a, b, counts) ==
  LET countA == counts[a.id]
      countB == counts[b.id]
  IN  IF countA.total # countB.total THEN countA.total - countB.total
      ELSE IF countA.holiday # countB.holiday
           THEN countA.holiday - countB.holiday
           ELSE SubLast(countA.lastAssigned, countB.lastAssigned)

\* Array.prototype.sort is stable: an element is placed after the last one
\* that does not compare greater than it
InsertSorted(sorted, x, counts) ==
  LET fits == {j \in 1..Len(sorted) : Compare(sorted[j], x, counts) <= 0}
      at == IF fits = {} THEN 0
            ELSE CHOOSE j \in fits : \A h \in fits : h <= j
  IN  SubSeq(sorted, 1, at) \o <<x>> \o SubSeq(sorted, at + 1, Len(sorted))

\* the available people left in roster order
SortPeopleUnsorted(avail, n, counts) == avail

RECURSIVE SortPeople(_, _, _)
SortPeople(avail, n, counts) ==
  IF n = 0 THEN <<>>
  ELSE InsertSorted(SortPeople(avail, n - 1, counts), avail[n], counts)

\* the assignment without its holiday counter
AssignToUncounted(acc, week, index, assignedPersonId, currentWeekHasHoliday) ==
  [out |-> Append(acc.out,
                  [week EXCEPT !.assignedTo = Num(assignedPersonId),
                               !.hasHoliday = currentWeekHasHoliday]),
   counts |-> [acc.counts EXCEPT ![assignedPersonId] =
                 [total |-> @.total + 1,
                  holiday |-> @.holiday,
                  lastAssigned |-> index]]]

\* lines 365-383: the week goes to assignedPersonId
AssignTo(acc, week, index, assignedPersonId, currentWeekHasHoliday) ==
  [out |-> Append(acc.out,
                  [week EXCEPT !.assignedTo = Num(assignedPersonId),
                               !.hasHoliday = currentWeekHasHoliday]),
   counts |-> [acc.counts EXCEPT ![assignedPersonId] =
                 [total |-> @.total + 1,
                  holiday |-> @.holiday
                              + (IF currentWeekHasHoliday THEN 1 ELSE 0),
                  lastAssigned |-> index]]]

\* lines 352-366
AssignAmong(acc, week, index, availablePeople, holidayList) ==
  IF Len(availablePeople) = 0
  THEN [out |-> Append(acc.out, [week EXCEPT !.assignedTo = NoOneAvailable]),
        counts |-> acc.counts]
  ELSE AssignTo(acc, week, index,
                SortPeople(availablePeople, Len(availablePeople),
                           acc.counts)[1].id,
                weekContainsHoliday(week.startDate, week.endDate, holidayList))

\* the callback of currentSchedule.map at lines 344-384 for the week at
\* zero-based position index; acc holds the weeks mapped so far and counts
AssignWeek(acc, week, index, ppl, holidayList) ==
  IF week.isHolidayPeriod
  THEN [out |-> Append(acc.out, week), counts |-> acc.counts]
  ELSE AssignAmong(acc, week, index, FilterAvailable(ppl, 1, week, ppl),
                   holidayList)

RECURSIVE AssignFrom(_, _, _, _, _)
\* map visits the weeks in order; the i-th call has mapped i weeks
AssignFrom(i, currentSchedule, acc, ppl, holidayList) ==
  IF i > Len(currentSchedule) THEN acc
  ELSE LET mapped == AssignWeek(acc, currentSchedule[i], i - 1, ppl,
                                holidayList)
       IN  IF Len(mapped.out) = i
           THEN AssignFrom(i + 1, currentSchedule, mapped, ppl, holidayList)
           ELSE mapped

\* [schedule, counts]: what setSchedule and setHolidayCounts receive
assignPeopleToWeeks(currentSchedule, holidayList, ppl) ==
  LET counts0 == [id \in Ids(ppl) |->
                    [total |-> 0, holiday |-> 0, lastAssigned |-> MinusInfinity]]
      res == AssignFrom(1, currentSchedule, [out |-> <<>>, counts |-> counts0],
                        ppl, holidayList)
  IN  [schedule |-> res.out,
       counts |-> [id \in Ids(ppl) |->
                     [total |-> res.counts[id].total,
                      holiday |-> res.counts[id].holiday]]]

\* generateSchedule(holidayList), with the year, start month, start weekday
\* and roster its closure holds
generateSchedule(yr, sm, sd, ppl, holidayList) ==
  assignPeopleToWeeks(BuildWeeks(yr, sm, sd, holidayList), holidayList, ppl)

(***************************************************************************)
(* recalculateAssignments: the recount pass                                *)
(***************************************************************************)
RECURSIVE RecountFrom(_, _, _)
RecountFrom(i, sched, counts) ==
  IF i > Len(sched) THEN counts
  ELSE LET week == sched[i]
           personId == week.assignedTo.n
       IN  RecountFrom(i + 1, sched,
             IF week.assignedTo.t = "number" /\ personId \in DOMAIN counts
             THEN [counts EXCEPT ![personId] =
                     [total |-> counts[personId].total + 1,
                      holiday |-> counts[personId].holiday
                                  + (IF week.hasHoliday THEN 1 ELSE 0)]]
             ELSE counts)

\* a recount that starts from the counters on display instead of from zero
recalculateAssignmentsOntoCurrent(sched, ppl) ==
  RecountFrom(1, sched,
              [id \in Ids(ppl) |->
                 IF id \in DOMAIN holidayCounts
                 THEN [total |-> holidayCounts[id].total,
                       holiday |-> holidayCounts[id].holiday]
                 ELSE [total |-> 0, holiday |-> 0]])

recalculateAssignments(sched, ppl) ==
  RecountFrom(1, sched, [id \in Ids(ppl) |-> [total |-> 0, holiday |-> 0]])

(***************************************************************************)
(* Text helpers: String.prototype.trim, toLowerCase, split, join           *)
(***************************************************************************)
DigitChars == <<"0", "1", "2", "3", "4", "5", "6", "7", "8", "9">>
LF == "\n"
CR == "\r"
QUOTE == "\""
COMMA == ","
WhiteSpace == {" ", LF, CR, "\t"}

trim(str) ==
  LET keep == {i \in 1..Len(str) : str[i] \notin WhiteSpace}
  IN  IF keep = {} THEN <<>>
      ELSE SubSeq(str, CHOOSE i \in keep : \A j \in keep : i <= j,
                       CHOOSE i \in keep : \A j \in keep : j <= i)

UpperCaseLetters == <<"A", "B", "C", "D", "E", "F", "G", "H", "I", "J", "K",
                      "L", "M", "N", "O", "P", "Q", "R", "S", "T", "U", "V",
                      "W", "X", "Y", "Z">>
LowerCaseLetters == <<"a", "b", "c", "d", "e", "f", "g", "h", "i", "j", "k",
                      "l", "m", "n", "o", "p", "q", "r", "s", "t", "u", "v",
                      "w", "x", "y", "z">>
toLowerCase(str) ==
  [i \in 1..Len(str) |->
     IF \E k \in 1..26 : UpperCaseLetters[k] = str[i]
     THEN LowerCaseLetters[CHOOSE k \in 1..26 : UpperCaseLetters[k] = str[i]]
     ELSE str[i]]

\* the k-th smallest element of a set of positions
NthOf(P, k) == CHOOSE p \in P : Cardinality({q \in P : q < p}) = k - 1

\* str cut at the positions of Sep (each a one-character separator)
SplitAt(str, Sep) ==
  LET n == Cardinality(Sep)
      from(k) == IF k = 1 THEN 1 ELSE NthOf(Sep, k - 1) + 1
      to(k) == IF k = n + 1 THEN Len(str) ELSE NthOf(Sep, k) - 1
  IN  [k \in 1..(n + 1) |-> SubSeq(str, from(k), to(k))]

RECURSIVE join(_, _)
\* Array.prototype.join
join(parts, sep) ==
  IF Len(parts) = 0 THEN <<>>
  ELSE IF Len(parts) = 1 THEN parts[1]
  ELSE join(SubSeq(parts, 1, Len(parts) - 1), sep) \o sep \o parts[Len(parts)]

\* csvContent.split(/\r?\n/): cut at every LF, a CR right before it dropped
SplitLines(str) ==
  LET cut == SplitAt(str, {i \in 1..Len(str) : str[i] = LF})
  IN  [k \in 1..Len(cut) |->
         IF k < Len(cut) /\ Len(cut[k]) > 0 /\ cut[k][Len(cut[k])] = CR
         THEN SubSeq(cut[k], 1, Len(cut[k]) - 1)
         ELSE cut[k]]

(***************************************************************************)
(* Dates as text                                                           *)
(***************************************************************************)
RECURSIVE Decimal(_)
\* String(n) for n >= 0
Decimal(n) ==
  IF n < 10 THEN <<DigitChars[n + 1]>>
  ELSE Decimal(n \div 10) \o <<DigitChars[(n % 10) + 1]>>

\* n.toString().padStart(2, '0')
PadStart2(n) == IF n < 10 THEN <<"0">> \o Decimal(n) ELSE Decimal(n)

InvalidDateText == <<"I", "n", "v", "a", "l", "i", "d", " ", "D", "a", "t", "e">>

formatDateYYYYMMDD(date) ==
  IF date = NaN THEN InvalidDateText
  ELSE Decimal(getUTCFullYear(date)) \o <<"-">>
       \o PadStart2(getUTCMonth(date) + 1) \o <<"-">>
       \o PadStart2(getUTCDate(date))

IsDigit(c) == \E k \in 1..10 : DigitChars[k] = c
DigitValue(c) == (CHOOSE k \in 1..10 : DigitChars[k] = c) - 1
DaysInMonth(y, m) ==
  (IF m = 11 THEN DateUTC(y + 1, 0, 1) ELSE DateUTC(y, m + 1, 1))
  - DateUTC(y, m, 1)

\* new Date(str + 'T00:00:00Z'): the ISO form YYYY-MM-DD of a real calendar
\* day, anything else is the invalid Date
ParseDate(str) ==
  IF /\ Len(str) = 10
     /\ str[5] = "-" /\ str[8] = "-"
     /\ \A i \in {1, 2, 3, 4, 6, 7, 9, 10} : IsDigit(str[i])
  THEN LET y == 1000 * DigitValue(str[1]) + 100 * DigitValue(str[2])
                + 10 * DigitValue(str[3]) + DigitValue(str[4])
           m == 10 * DigitValue(str[6]) + DigitValue(str[7])
           d == 10 * DigitValue(str[9]) + DigitValue(str[10])
       IN  IF m \in 1..12 /\ d >= 1 /\ d <= DaysInMonth(y, m - 1)
           THEN DateUTC(y, m - 1, d)
           ELSE NaN
  ELSE NaN

(***************************************************************************)
(* CSV export                                                              *)
(***************************************************************************)
CSV_HEADERS ==
  <<<<"W", "e", "e", "k", " ", "S", "t", "a", "r", "t", " ", "D", "a", "t", "e">>,
    <<"W", "e", "e", "k", " ", "E", "n", "d", " ", "D", "a", "t", "e">>,
    <<"A", "s", "s", "i", "g", "n", "e", "d", " ", "T", "o">>,
    <<"H", "o", "l", "i", "d", "a", "y", "s">>,
    <<"N", "o", "t", "e", "s">>>>

getPersonName(id, ppl) ==
  IF id.t = "number"
  THEN (IF FindPerson(ppl, id.n) # 0 THEN ppl[FindPerson(ppl, id.n)].name
        ELSE UnknownPersonText)
  ELSE IF id.t = "string" THEN id.s
  ELSE UnassignedText

\* the lookup with names compared as they are written
getPersonIdFromNameCaseSensitive(name, ppl) ==
  LET hits == {k \in 1..Len(ppl) : ppl[k].name = name}
  IN  IF hits # {}
      THEN Num(ppl[CHOOSE k \in hits : \A j \in hits : k <= j].id)
      ELSE IF name \in {HolidayPeriodText, NoOneAvailableText, UnassignedText}
           THEN Str(name)
           ELSE Null

getPersonIdFromName(name, ppl) ==
  LET hits == {k \in 1..Len(ppl) : toLowerCase(ppl[k].name) = toLowerCase(name)}
  IN  IF hits # {}
      THEN Num(ppl[CHOOSE k \in hits : \A j \in hits : k <= j].id)
      ELSE IF name \in {HolidayPeriodText, NoOneAvailableText, UnassignedText}
           THEN Str(name)
           ELSE Null

\* holidays.filter(...) of getHolidaysInWeek, in list order
getHolidaysInWeek(startDate, endDate, holidayList) ==
  IF Len(holidayList) = 0 \/ startDate = NaN \/ endDate = NaN THEN <<>>
  ELSE SelectSeq(holidayList,
         LAMBDA holiday :
           /\ DateGE(holiday.date, LocalPartsAsUTC(startDate))
           /\ DateLE(holiday.date, LocalPartsAsUTC(endDate)))

escapeCSV(field) ==
  IF \E i \in 1..Len(field) : field[i] \in {COMMA, LF, QUOTE}
  THEN <<QUOTE>>
       \o join([i \in 1..Len(field) |->
                  IF field[i] = QUOTE THEN <<QUOTE, QUOTE>> ELSE <<field[i]>>],
               <<>>)
       \o <<QUOTE>>
  ELSE field

unescapeCSV(field) ==
  IF Len(field) >= 1 /\ field[1] = QUOTE /\ field[Len(field)] = QUOTE
  THEN LET str == SubSeq(field, 2, Len(field) - 1)
           \* replace(/""/g, '"'): leftmost pairs first; the second quote of
           \* a pair is the one an odd number of quotes into its run
           runStart(i) == CHOOSE b \in 1..i :
                            /\ \A j \in b..i : str[j] = QUOTE
                            /\ (b = 1 \/ str[b - 1] # QUOTE)
           dropped == {i \in 1..Len(str) :
                         str[i] = QUOTE /\ (i - runStart(i)) % 2 = 1}
       IN  join([i \in 1..Len(str) |->
                   IF i \in dropped THEN <<>> ELSE <<str[i]>>], <<>>)
  ELSE field

\* one row of the export: lines 661-677
ExportRow(week, ppl, holidayList) ==
  LET startDateStr == formatDateYYYYMMDD(week.startDate)
      endDateStr == formatDateYYYYMMDD(week.endDate)
      assignedName == getPersonName(week.assignedTo, ppl)
      inWeek == getHolidaysInWeek(week.startDate, week.endDate, holidayList)
      holidaysStr ==
        join([i \in 1..Len(inWeek) |->
                formatDateYYYYMMDD(inWeek[i].date) \o <<":", " ">>
                \o inWeek[i].name],
             <<LF>>)
      notesStr == week.notes
  IN  join(<<escapeCSV(startDateStr), escapeCSV(endDateStr),
             escapeCSV(assignedName), escapeCSV(holidaysStr),
             escapeCSV(notesStr)>>, <<COMMA>>)

\* csvContent of exportScheduleCSV
ExportCSV(sched, ppl, holidayList) ==
  join(<<join(CSV_HEADERS, <<COMMA>>)>>
       \o [i \in 1..Len(sched) |-> ExportRow(sched[i], ppl, holidayList)],
       <<LF>>)

(***************************************************************************)
(* CSV import                                                              *)
(***************************************************************************)
\* the character scanner of lines 739-752: a quote toggles inQuotes and is
\* dropped, a comma outside quotes ends a value, every value is trimmed and
\* unescaped.  inQuotes at a character is the parity of the quotes before it.
ScanLine(line) ==
  LET inQuotes(i) ==
        Cardinality({j \in 1..(i - 1) : line[j] = QUOTE}) % 2 = 1
      ends == {i \in 1..Len(line) : line[i] = COMMA /\ ~inQuotes(i)}
      raw == SplitAt(line, ends)
  IN  [k \in 1..Len(raw) |->
         unescapeCSV(trim(SelectSeq(raw[k], LAMBDA c : c # QUOTE)))]

\* the row loop without the check of the two dates
ImportRowKeepingInvalidDates(line, ppl, holidayList) ==
  LET values == ScanLine(line)
  IN  IF Len(values) # Len(CSV_HEADERS) THEN <<>>
      ELSE <<[startDate |-> ParseDate(values[1]),
              endDate |-> ParseDate(values[2]),
              assignedTo |-> getPersonIdFromName(values[3], ppl),
              hasHoliday |-> FALSE,
              isHolidayPeriod |-> FALSE,
              notes |-> values[5]]>>

\* the week a data line yields, or the empty sequence when it is skipped
ImportRow(line, ppl, holidayList) ==
  LET values == ScanLine(line)
  IN  IF Len(values) # Len(CSV_HEADERS) THEN <<>>
      ELSE LET startDate == ParseDate(values[1])
               endDate == ParseDate(values[2])
               assignedToValue == getPersonIdFromName(values[3], ppl)
               notes == values[5]
           IN  IF startDate = NaN \/ endDate = NaN THEN <<>>
               ELSE LET isHolidayPeriod ==
                          isWeekInHolidayPeriod(startDate, endDate,
                                                getUTCFullYear(startDate))
                        hasHoliday ==
                          weekContainsHoliday(startDate, endDate, holidayList)
                    IN  <<[startDate |-> startDate,
                           endDate |-> endDate,
                           assignedTo |-> IF isHolidayPeriod THEN HolidayPeriod
                                          ELSE assignedToValue,
                           hasHoliday |-> hasHoliday,
                           isHolidayPeriod |-> isHolidayPeriod,
                           notes |-> notes]>>

\* reader.onload with a header validation that only counts the names
ImportCSVCountingHeaders(csvContent, ppl, holidayList) ==
  LET lines == SelectSeq(SplitLines(csvContent), LAMBDA l : trim(l) # <<>>)
      headerCut == SplitAt(lines[1], {i \in 1..Len(lines[1]) :
                                        lines[1][i] = COMMA})
      importedSchedule ==
        join([k \in 1..(Len(lines) - 1) |->
                ImportRow(lines[k + 1], ppl, holidayList)], <<>>)
  IN  IF Len(csvContent) = 0 \/ Len(lines) < 2
         \/ Len(headerCut) # Len(CSV_HEADERS) \/ Len(importedSchedule) = 0
      THEN [ok |-> FALSE, schedule |-> <<>>]
      ELSE [ok |-> TRUE, schedule |-> importedSchedule]

\* reader.onload without the final check for an empty result
ImportCSVAcceptingNoWeeks(csvContent, ppl, holidayList) ==
  LET lines == SelectSeq(SplitLines(csvContent), LAMBDA l : trim(l) # <<>>)
      headerCut == SplitAt(lines[1], {i \in 1..Len(lines[1]) :
                                        lines[1][i] = COMMA})
      headers == [k \in 1..Len(headerCut) |-> trim(headerCut[k])]
      importedSchedule ==
        join([k \in 1..(Len(lines) - 1) |->
                ImportRow(lines[k + 1], ppl, holidayList)], <<>>)
  IN  IF Len(csvContent) = 0 \/ Len(lines) < 2 \/ headers # CSV_HEADERS
      THEN [ok |-> FALSE, schedule |-> <<>>]
      ELSE [ok |-> TRUE, schedule |-> importedSchedule]

\* reader.onload of importScheduleCSV: [ok, schedule]; ok is FALSE when the
\* import throws (empty file, no data row, bad headers, no valid row)
ImportCSV(csvContent, ppl, holidayList) ==
  LET lines == SelectSeq(SplitLines(csvContent), LAMBDA l : trim(l) # <<>>)
      headerCut == SplitAt(lines[1], {i \in 1..Len(lines[1]) :
                                        lines[1][i] = COMMA})
      headers == [k \in 1..Len(headerCut) |-> trim(headerCut[k])]
      importedSchedule ==
        join([k \in 1..(Len(lines) - 1) |->
                ImportRow(lines[k + 1], ppl, holidayList)], <<>>)
  IN  IF Len(csvContent) = 0 \/ Len(lines) < 2 \/ headers # CSV_HEADERS
         \/ Len(importedSchedule) = 0
      THEN [ok |-> FALSE, schedule |-> <<>>]
      ELSE [ok |-> TRUE, schedule |-> importedSchedule]


(***************************************************************************)
(* Inputs of the model                                                     *)
(***************************************************************************)
\* roster size explored by the model (the program allows MAX_PEOPLE)
MaxRoster == 3
\* leave intervals one person holds in the drawn rosters
MaxLeave == 1
\* user events in one run of the application
MaxEvents == 2

\* time zones: west of UTC a UTC midnight falls on the previous local day
TimeZones == {-1, 0}

PersonName(i) == <<"P", "e", "r", "s", "o", "n", " ", DigitChars[i + 1]>>

\* the roster of a first visit: Person 1, Person 2, Person 3, no leave
DefaultPeople ==
  [i \in 1..3 |-> [id |-> i, name |-> PersonName(i), leave |-> <<>>]]

\* days, counted from the first week's start, on which drawn leave starts/ends
LeaveDayOffsets == {6, 7}
\* days, counted likewise, of a long leave that lasts into the next year
LongLeaveOffsets == <<21, 100>>
LeaveChoices(first) ==
  {[start |-> first + ab[1], end |-> first + ab[2]] :
     ab \in {x \in LeaveDayOffsets \X LeaveDayOffsets : x[1] <= x[2]}}
  \cup {[start |-> first + LongLeaveOffsets[1],
         end |-> first + LongLeaveOffsets[2]]}

RECURSIVE SeqsUpTo(_, _)
\* the sequences over S of length at most n
SeqsUpTo(S, n) ==
  IF n = 0 THEN {<<>>}
  ELSE LET shorter == SeqsUpTo(S, n - 1)
       IN  shorter \cup {Append(q, x) : q \in shorter, x \in S}

\* leave lists addLeave can build: no two intervals alike
LeaveLists(first) ==
  {q \in SeqsUpTo(LeaveChoices(first), MaxLeave) :
     \A i, j \in 1..Len(q) : q[i] = q[j] => i = j}

RECURSIVE AscendingSeq(_)
AscendingSeq(S) ==
  IF S = {} THEN <<>>
  ELSE LET m == CHOOSE x \in S : \A y \in S : x <= y
       IN  <<m>> \o AscendingSeq(S \ {m})

\* rosters addPerson/removePerson/addLeave can build: ids ascending
Rosters(first) ==
  UNION {
    {[k \in 1..Len(AscendingSeq(ids)) |->
        [id |-> AscendingSeq(ids)[k],
         name |-> PersonName(AscendingSeq(ids)[k]),
         leave |-> lv[AscendingSeq(ids)[k]]]] :
       lv \in [ids -> LeaveLists(first)]} :
    ids \in SUBSET (1..MaxRoster)}

\* holiday lists, as day offsets from the first week's start
HolidayLists(first) ==
  {<<>>,
   <<[date |-> first + 7, name |-> <<"A">>]>>,
   <<[date |-> first + 6, name |-> <<"A">>],
     [date |-> first + 15, name |-> <<"B">>]>>}

(***************************************************************************)
(* The generator and the greedy pass on their own                          *)
(***************************************************************************)
\* state shared by the initial states of every specification
InitCommon ==
  /\ schedule = <<>>
  /\ isLoadingHolidays = FALSE
  /\ holidayError = FALSE
  /\ holidayCounts = <<>>
  /\ changed = {}
  /\ fetches = <<>>
  /\ csvText = <<>>
  /\ last = [op |-> "init", index |-> 0, edited |-> FALSE, cause |-> "init"]

\* every year of the <select>, every start month and start weekday
InitGen ==
  /\ year \in Years
  /\ startMonth \in 0..11
  /\ startDayOfWeek \in 0..6
  /\ people = DefaultPeople
  /\ holidays = <<>>
  /\ tz = 0
  /\ budget = 0
  /\ InitCommon

\* a late start month keeps the schedule short; rosters, leave, holiday lists
\* and time zones vary
AssignMonths == {9, 11}
AssignStartDays == {0, 2}
InitAssign ==
  /\ year = currentYear
  /\ startMonth \in AssignMonths
  /\ startDayOfWeek \in AssignStartDays
  /\ tz \in TimeZones
  /\ people \in Rosters(FirstWeekStart(year, startMonth, startDayOfWeek))
  /\ holidays \in HolidayLists(FirstWeekStart(year, startMonth, startDayOfWeek))
  /\ budget = 0
  /\ InitCommon

\* one call of generateSchedule(holidays): lines 271-316 and 319-394
RunGenerate ==
  /\ last.op = "init"
  /\ LET res == generateSchedule(year, startMonth, startDayOfWeek, people,
                                 holidays)
     IN  /\ schedule' = res.schedule
         /\ holidayCounts' = res.counts
  /\ last' = [op |-> "generate", index |-> 0, edited |-> FALSE,
              cause |-> "init"]
  /\ UNCHANGED <<year, startDayOfWeek, startMonth, people, holidays,
                 isLoadingHolidays, holidayError, tz, changed, fetches,
                 csvText, budget>>

SpecGen == InitGen /\ [][RunGenerate]_vars
SpecAssign == InitAssign /\ [][RunGenerate]_vars

(***************************************************************************)
(* Event handlers, as functions of the state their closure holds           *)
(***************************************************************************)
MaxId(ppl) == CHOOSE m \in Ids(ppl) : \A x \in Ids(ppl) : x <= m

\* addPerson numbering the new person by the size of the roster
addPersonNumberedByCount(ppl, newPersonName) ==
  LET trimmedName == trim(newPersonName)
  IN  IF trimmedName # <<>> /\ Len(ppl) < MAX_PEOPLE
      THEN Append(ppl, [id |-> Len(ppl) + 1,
                        name |-> trimmedName, leave |-> <<>>])
      ELSE ppl

addPerson(ppl, newPersonName) ==
  LET trimmedName == trim(newPersonName)
  IN  IF trimmedName # <<>> /\ Len(ppl) < MAX_PEOPLE
      THEN Append(ppl, [id |-> IF Len(ppl) > 0 THEN MaxId(ppl) + 1 ELSE 1,
                        name |-> trimmedName, leave |-> <<>>])
      ELSE ppl

\* a removal that leaves the schedule as it is
removePersonKeepingWeeks(sched, ppl, idToRemove) ==
  [schedule |-> sched,
   people |-> SelectSeq(ppl, LAMBDA person : person.id # idToRemove)]

\* [schedule, people]: what setSchedule and setPeople receive
removePerson(sched, ppl, idToRemove) ==
  [schedule |-> [i \in 1..Len(sched) |->
                   IF sched[i].assignedTo = Num(idToRemove)
                   THEN [sched[i] EXCEPT !.assignedTo = Null]
                   ELSE sched[i]],
   people |-> SelectSeq(ppl, LAMBDA person : person.id # idToRemove)]

updatePersonName(ppl, idToUpdate, newName) ==
  [k \in 1..Len(ppl) |->
     IF ppl[k].id = idToUpdate THEN [ppl[k] EXCEPT !.name = trim(newName)]
     ELSE ppl[k]]

\* addLeave without the search for an interval the person already has
addLeaveUnchecked(ppl, selectedPersonIdForLeave, leaveDate, leaveEndDate) ==
  IF leaveDate # NaN /\ leaveEndDate # NaN /\ leaveDate > leaveEndDate
  THEN [set |-> FALSE, people |-> ppl]
  ELSE [set |-> TRUE,
        people |->
          [k \in 1..Len(ppl) |->
             IF ppl[k].id = selectedPersonIdForLeave
             THEN [ppl[k] EXCEPT !.leave =
                     Append(@, [start |-> leaveDate, end |-> leaveEndDate])]
             ELSE ppl[k]]]

\* [set, people]: set is FALSE when addLeave returns before setPeople
addLeave(ppl, selectedPersonIdForLeave, leaveDate, leaveEndDate) ==
  IF leaveDate # NaN /\ leaveEndDate # NaN /\ leaveDate > leaveEndDate
  THEN [set |-> FALSE, people |-> ppl]
  ELSE [set |-> TRUE,
        people |->
          [k \in 1..Len(ppl) |->
             IF ppl[k].id = selectedPersonIdForLeave
             THEN (IF \E j \in 1..Len(ppl[k].leave) :
                        /\ ppl[k].leave[j].start = leaveDate
                        /\ ppl[k].leave[j].end = leaveEndDate
                   THEN ppl[k]
                   ELSE [ppl[k] EXCEPT !.leave =
                           Append(@, [start |-> leaveDate,
                                      end |-> leaveEndDate])])
             ELSE ppl[k]]]

removeLeave(ppl, personId, leaveIndex) ==
  [k \in 1..Len(ppl) |->
     IF ppl[k].id = personId
     THEN [ppl[k] EXCEPT !.leave =
             IF leaveIndex >= 0 /\ leaveIndex < Len(@)
             THEN SubSeq(@, 1, leaveIndex) \o SubSeq(@, leaveIndex + 2, Len(@))
             ELSE @]
     ELSE ppl[k]]

\* the handler without its holiday-period guard
handleWeekAssignmentChangeUnguarded(sched, index, personId) ==
  IF index >= 0 /\ index < Len(sched)
  THEN [set |-> TRUE,
        schedule |-> [sched EXCEPT ![index + 1].assignedTo = personId]]
  ELSE [set |-> FALSE, schedule |-> sched]

\* [set, schedule]; index is zero-based, personId is Null or Num(id)
handleWeekAssignmentChange(sched, index, personId) ==
  IF index >= 0 /\ index < Len(sched) /\ ~sched[index + 1].isHolidayPeriod
  THEN [set |-> TRUE,
        schedule |-> [sched EXCEPT ![index + 1].assignedTo = personId]]
  ELSE [set |-> FALSE, schedule |-> sched]

saveNotes(sched, currentWeekIndexForNotes, currentNotes) ==
  IF currentWeekIndexForNotes >= 0 /\ currentWeekIndexForNotes < Len(sched)
  THEN [set |-> TRUE,
        schedule |-> [sched EXCEPT ![currentWeekIndexForNotes + 1].notes =
                                     trim(currentNotes)]]
  ELSE [set |-> FALSE, schedule |-> sched]

(***************************************************************************)
(* Effects: which run after a render, from the slots that changed          *)
(***************************************************************************)
\* useEffect(..., [year, fetchHolidays])
FetchEffectRuns(chg) == chg \cap {"mount", "year"} # {}
\* the generate effect with the roster missing from its dependency list
GenerateEffectRunsWithoutPeople(chg) ==
  chg \cap {"mount", "year", "startDayOfWeek", "startMonth", "holidays",
            "isLoadingHolidays"} # {}

\* the generate effect with the schedule added to its dependency list
GenerateEffectRunsOnScheduleToo(chg) ==
  chg \cap {"mount", "year", "people", "startDayOfWeek", "startMonth",
            "holidays", "isLoadingHolidays", "schedule"} # {}

\* useEffect(..., [year, people, startDayOfWeek, startMonth, holidays,
\*                 isLoadingHolidays])
GenerateEffectRuns(chg) ==
  chg \cap {"mount", "year", "people", "startDayOfWeek", "startMonth",
            "holidays", "isLoadingHolidays"} # {}
\* the recount effect with the schedule missing from its dependency list
RecountEffectRunsOnHolidaysOnly(chg) == chg \cap {"mount", "holidays"} # {}

\* useEffect(..., [schedule, holidays])
RecountEffectRuns(chg) == chg \cap {"mount", "schedule", "holidays"} # {}

\* the response of date.nager.at for a year and the next: what falls in the
\* last weeks of the year
ApiHolidays(yr) ==
  <<[date |-> DateUTC(yr, 10, 11), name |-> <<"V", "e", "t">>],
    [date |-> DateUTC(yr, 11, 25), name |-> <<"X", "m", "a", "s">>],
    [date |-> DateUTC(yr + 1, 0, 1), name |-> <<"N", "e", "w">>]>>

(***************************************************************************)
(* The application                                                         *)
(***************************************************************************)
AppYears == {currentYear, currentYear + 1}
AppStartMonths == {10, 11}
AppStartDays == {1, 2}
NewNames == {<<"A", "n", "n">>}
NoteTexts == {<<"o", "k", " ">>, <<"a", QUOTE, "b">>}
\* the first Tuesday of December of the current year
AppFirst == DateUTC(currentYear, 11, 1) + ((2 - getUTCDay(DateUTC(currentYear, 11, 1)) + 7) % 7)
AppLeaveDays == {AppFirst + 6, AppFirst + 7}
\* weeks a manual edit aims at: the first two and the last (zero-based)
EditIndexes == {0, 1, Len(schedule) - 1} \cap (0..(Len(schedule) - 1))

\* the page has just been rendered for the first time: settings and roster
\* come from localStorage, every effect is still to run
InitPage ==
  /\ year = currentYear
  /\ startDayOfWeek = 2
  /\ startMonth = 11
  /\ tz \in TimeZones
  /\ people \in {DefaultPeople,
                 [DefaultPeople EXCEPT ![1].leave =
                    <<[start |-> AppFirst + 6, end |-> AppFirst + 6]>>]}
  /\ holidays = <<>>
  /\ schedule = <<>>
  /\ isLoadingHolidays = FALSE
  /\ holidayError = FALSE
  /\ holidayCounts = <<>>
  /\ changed = {"mount"}
  /\ fetches = <<>>
  /\ csvText = <<>>
  /\ last = [op |-> "init", index |-> 0, edited |-> FALSE, cause |-> "init"]

Init == InitPage /\ budget = MaxEvents

Idle == changed = {}
\* manual edits made since the schedule was last generated
Edited == last.edited /\ last.op # "generate"
UserEvent(op, index, edited) ==
  /\ Idle
  /\ budget > 0
  /\ budget' = budget - 1
  /\ last' = [op |-> op, index |-> index, edited |-> edited, cause |-> op]

\* React runs the effects of a commit together, each with the state of that
\* render; the state they set is rendered next
FlushEffects ==
  /\ changed # {}
  /\ LET fetchRuns == FetchEffectRuns(changed)
         genRuns == GenerateEffectRuns(changed) /\ ~isLoadingHolidays
         recountRuns == RecountEffectRuns(changed)
         gen == generateSchedule(year, startMonth, startDayOfWeek, people,
                                 holidays)
     IN  /\ isLoadingHolidays' = (fetchRuns \/ isLoadingHolidays)
         /\ holidayError' = (~fetchRuns /\ holidayError)
         /\ fetches' = IF fetchRuns THEN Append(fetches, year) ELSE fetches
         /\ schedule' = IF genRuns THEN gen.schedule ELSE schedule
         /\ holidayCounts' =
              IF recountRuns THEN recalculateAssignments(schedule, people)
              ELSE IF genRuns THEN gen.counts ELSE holidayCounts
         /\ changed' = (IF genRuns THEN {"schedule"} ELSE {})
                       \cup (IF fetchRuns /\ ~isLoadingHolidays
                             THEN {"isLoadingHolidays"} ELSE {})
         /\ last' = [op |-> IF genRuns THEN "generate" ELSE "effects",
                     index |-> last.index, edited |-> Edited,
                     cause |-> last.cause]
  /\ UNCHANGED <<year, startDayOfWeek, startMonth, people, holidays, tz,
                 csvText, budget>>

RemoveAt(q, i) == SubSeq(q, 1, i - 1) \o SubSeq(q, i + 1, Len(q))

\* a fetch whose failure path never clears the loading flag
FetchSettlesKeepingFlagOnFailure(i, list, failed) ==
  /\ Idle
  /\ i \in 1..Len(fetches)
  /\ holidays' = list
  /\ holidayError' = (failed \/ holidayError)
  /\ isLoadingHolidays' = (failed /\ isLoadingHolidays)
  /\ fetches' = RemoveAt(fetches, i)
  /\ changed' = {"holidays"}
                \cup (IF isLoadingHolidays /\ ~failed
                      THEN {"isLoadingHolidays"} ELSE {})
  /\ last' = [op |-> IF failed THEN "fetchFailed" ELSE "fetched",
              index |-> 0, edited |-> Edited,
              cause |-> IF failed THEN "fetchFailed" ELSE "fetched"]
  /\ UNCHANGED <<year, startDayOfWeek, startMonth, people, schedule,
                 holidayCounts, tz, csvText, budget>>

\* a fetch settles: setHolidays and, in finally, setIsLoadingHolidays(false)
FetchSettles(i, list, failed) ==
  /\ Idle
  /\ i \in 1..Len(fetches)
  /\ holidays' = list
  /\ holidayError' = (failed \/ holidayError)
  /\ isLoadingHolidays' = FALSE
  /\ fetches' = RemoveAt(fetches, i)
  /\ changed' = {"holidays"}
                \cup (IF isLoadingHolidays THEN {"isLoadingHolidays"} ELSE {})
  /\ last' = [op |-> IF failed THEN "fetchFailed" ELSE "fetched",
              index |-> 0, edited |-> Edited,
              cause |-> IF failed THEN "fetchFailed" ELSE "fetched"]
  /\ UNCHANGED <<year, startDayOfWeek, startMonth, people, schedule,
                 holidayCounts, tz, csvText, budget>>

FetchSucceeds == \E i \in 1..Len(fetches) :
                   FetchSettles(i, ApiHolidays(fetches[i]), FALSE)
FetchFails == \E i \in 1..Len(fetches) : FetchSettles(i, <<>>, TRUE)

SetYear ==
  \E y \in AppYears \ {year} :
    /\ UserEvent("setYear", 0, Edited)
    /\ year' = y
    /\ changed' = {"year"}
    /\ UNCHANGED <<startDayOfWeek, startMonth, people, schedule, holidays,
                   isLoadingHolidays, holidayError, holidayCounts, tz,
                   fetches, csvText>>

SetStartMonth ==
  \E m \in AppStartMonths \ {startMonth} :
    /\ UserEvent("setStartMonth", 0, Edited)
    /\ startMonth' = m
    /\ changed' = {"startMonth"}
    /\ UNCHANGED <<year, startDayOfWeek, people, schedule, holidays,
                   isLoadingHolidays, holidayError, holidayCounts, tz,
                   fetches, csvText>>

SetStartDayOfWeek ==
  \E d \in AppStartDays \ {startDayOfWeek} :
    /\ UserEvent("setStartDayOfWeek", 0, Edited)
    /\ startDayOfWeek' = d
    /\ changed' = {"startDayOfWeek"}
    /\ UNCHANGED <<year, startMonth, people, schedule, holidays,
                   isLoadingHolidays, holidayError, holidayCounts, tz,
                   fetches, csvText>>

\* every setPeople hands React a new array, so the roster slot changes even
\* when its content does not
SetPeople(op, index, ppl) ==
  /\ UserEvent(op, index, Edited)
  /\ people' = ppl
  /\ changed' = {"people"}
  /\ UNCHANGED <<year, startDayOfWeek, startMonth, schedule, holidays,
                 isLoadingHolidays, holidayError, holidayCounts, tz, fetches,
                 csvText>>

\* the add button (or Enter in the name field) with name typed; index tells
\* which of the typed names it was.  Nothing is set when the name is blank
\* or the roster is full
ClickAddPerson(index, name) ==
  IF trim(name) # <<>> /\ Len(people) < MAX_PEOPLE
  THEN SetPeople("addPerson", index, addPerson(people, name))
  ELSE /\ UserEvent("addPersonIgnored", index, Edited)
       /\ UNCHANGED <<year, startDayOfWeek, startMonth, people, schedule,
                      holidays, isLoadingHolidays, holidayError,
                      holidayCounts, tz, changed, fetches, csvText>>

AddPerson ==
  \E name \in NewNames :
    /\ Len(people) < MaxRoster
    /\ ClickAddPerson(0, name)

UpdatePersonName ==
  \E id \in Ids(people), name \in NewNames :
    SetPeople("updatePersonName", id, updatePersonName(people, id, name))

\* the leave form is submitted.  A submission of an interval the person
\* already has still reaches setPeople, with the roster's content as it was
SubmitLeave(id, s, e) ==
  LET res == addLeave(people, id, s, e)
  IN  IF res.set
      THEN SetPeople(IF res.people = people THEN "addLeaveDuplicate"
                     ELSE "addLeave", id, res.people)
      ELSE /\ UserEvent("addLeaveRejected", id, Edited)
           /\ UNCHANGED <<year, startDayOfWeek, startMonth, people,
                          schedule, holidays, isLoadingHolidays,
                          holidayError, holidayCounts, tz, changed,
                          fetches, csvText>>

\* the leave list a submission leaves the person with is no longer than n
LeaveWithin(id, s, e, n) ==
  Len(addLeave(people, id, s, e).people[FindPerson(people, id)].leave) <= n

\* a person holds at most MaxLeave intervals in the runs of the application
AddLeave ==
  \E id \in Ids(people), s \in AppLeaveDays, e \in AppLeaveDays :
    /\ LeaveWithin(id, s, e, MaxLeave)
    /\ SubmitLeave(id, s, e)

\* the remove button of the leave at leaveIndex is clicked
ClickRemoveLeave(id, leaveIndex) ==
  SetPeople(IF leaveIndex \in 0..(Len(people[FindPerson(people, id)].leave) - 1)
            THEN "removeLeave" ELSE "removeLeaveOutOfRange",
            id, removeLeave(people, id, leaveIndex))

RemoveLeave ==
  \E id \in Ids(people) :
    \E j \in 0..(Len(people[FindPerson(people, id)].leave) - 1) :
      ClickRemoveLeave(id, j)

\* the remove button in the row of the member id
ClickRemovePerson(id) ==
  LET res == removePerson(schedule, people, id)
  IN  /\ UserEvent("removePerson", id, Edited)
      /\ schedule' = res.schedule
      /\ people' = res.people
      /\ changed' = {"schedule", "people"}
      /\ UNCHANGED <<year, startDayOfWeek, startMonth, holidays,
                     isLoadingHolidays, holidayError, holidayCounts, tz,
                     fetches, csvText>>

RemovePerson == \E id \in Ids(people) : ClickRemovePerson(id)

\* the recount the handler calls reads the week objects it has just changed
HandleWeekAssignmentChange ==
  \E index \in EditIndexes, personId \in {Null} \cup {Num(id) : id \in Ids(people)} :
    LET res == handleWeekAssignmentChange(schedule, index, personId)
    IN  /\ UserEvent("assign", index, Edited \/ res.set)
        /\ schedule' = res.schedule
        /\ holidayCounts' = IF res.set
                            THEN recalculateAssignments(res.schedule, people)
                            ELSE holidayCounts
        /\ changed' = IF res.set THEN {"schedule"} ELSE {}
        /\ UNCHANGED <<year, startDayOfWeek, startMonth, people, holidays,
                       isLoadingHolidays, holidayError, tz, fetches, csvText>>

SaveNotes ==
  \E index \in EditIndexes, text \in NoteTexts :
    LET res == saveNotes(schedule, index, text)
    IN  /\ UserEvent("saveNotes", index, TRUE)
        /\ schedule' = res.schedule
        /\ changed' = {"schedule"}
        /\ UNCHANGED <<year, startDayOfWeek, startMonth, people, holidays,
                       isLoadingHolidays, holidayError, holidayCounts, tz,
                       fetches, csvText>>

ExportScheduleCSV ==
  /\ Len(schedule) > 0
  /\ UserEvent("export", 0, Edited)
  /\ csvText' = ExportCSV(schedule, people, holidays)
  /\ UNCHANGED <<year, startDayOfWeek, startMonth, people, schedule, holidays,
                 isLoadingHolidays, holidayError, holidayCounts, tz, changed,
                 fetches>>

\* reader.onload of importScheduleCSV on the text of the chosen file; the
\* recount the handler calls still sees the schedule of its render
ReadFile(text) ==
  /\ LET res == ImportCSV(text, people, holidays)
     IN  /\ UserEvent(IF res.ok THEN "import" ELSE "importFailed", 0,
                      Edited \/ res.ok)
         /\ schedule' = IF res.ok THEN res.schedule ELSE schedule
         /\ holidayCounts' = IF res.ok
                             THEN recalculateAssignments(schedule, people)
                             ELSE holidayCounts
         /\ changed' = IF res.ok THEN {"schedule"} ELSE {}
  /\ UNCHANGED <<year, startDayOfWeek, startMonth, people, holidays,
                 isLoadingHolidays, holidayError, tz, fetches>>

\* the file read is one exported before
ImportScheduleCSV ==
  /\ Len(csvText) > 0
  /\ ReadFile(csvText)
  /\ UNCHANGED csvText

Next ==
  \/ FlushEffects
  \/ FetchSucceeds
  \/ FetchFails
  \/ SetYear
  \/ SetStartMonth
  \/ SetStartDayOfWeek
  \/ AddPerson
  \/ UpdatePersonName
  \/ AddLeave
  \/ RemoveLeave
  \/ RemovePerson
  \/ HandleWeekAssignmentChange
  \/ SaveNotes
  \/ ExportScheduleCSV
  \/ ImportScheduleCSV

Spec == Init /\ [][Next]_vars

\* a step that runs the effects pending after a commit: it consumes the
\* changed slots and leaves at most the slots the effects themselves set
EffectsRun ==
  /\ changed # {}
  /\ changed' \in SUBSET {"schedule", "isLoadingHolidays"}

\* React runs the effects of a commit once the commit is done
FairSpec == Spec /\ WF_changed(EffectsRun)


(***************************************************************************)
(* Export and import on their own, from schedules that hold manual edits   *)
(***************************************************************************)
CsvRosters == {DefaultPeople,
               updatePersonName(DefaultPeople, 1, <<"A", "n", "n", " ">>)}

\* the settings of a mounted page whose holiday fetch has settled; the
\* schedule is generated, annotated, exported and imported from there
InitCsv ==
  /\ year = currentYear
  /\ startMonth = 11
  /\ startDayOfWeek \in AppStartDays
  /\ tz \in TimeZones
  /\ people \in CsvRosters
  /\ holidays \in {<<>>, ApiHolidays(year)}
  /\ budget = MaxEvents + 1
  /\ InitCommon

SpecCsv ==
  InitCsv /\ [][RunGenerate \/ FlushEffects \/ SaveNotes \/ ExportScheduleCSV
                 \/ ImportScheduleCSV]_vars

(***************************************************************************)
(* The leave form on its own, while the first holiday fetch is pending     *)
(***************************************************************************)
\* most intervals one person holds, and the leave events of one run
MaxStoredLeave == 2
MaxLeaveEvents == 3
\* the members whose leave is edited
LeaveIds == {1, 2}

AddLeaveMore ==
  \E id \in LeaveIds, s \in AppLeaveDays, e \in AppLeaveDays :
    /\ LeaveWithin(id, s, e, MaxStoredLeave)
    /\ SubmitLeave(id, s, e)

\* a click may reach removeLeave with an index the list no longer has
RemoveLeaveAny ==
  \E id \in LeaveIds :
    \E j \in (-1)..Len(people[FindPerson(people, id)].leave) :
      ClickRemoveLeave(id, j)

InitLeave == InitPage /\ budget = MaxLeaveEvents

SpecLeave == InitLeave /\ [][FlushEffects \/ AddLeaveMore \/ RemoveLeaveAny]_vars

(***************************************************************************)
(* The team panel on its own, while the first holiday fetch is pending     *)
(***************************************************************************)
\* the roster events of one run
MaxRosterEvents == 3
\* what the name field may hold when the add button or a rename is used
TypedNames == <<<<"A", "n", "n">>, <<>>, <<" ", " ">>, <<" ", "B", "o">>>>

\* the roster after the add button was used until it held n people
RECURSIVE Crowd(_, _)
Crowd(ppl, n) ==
  IF Len(ppl) >= n THEN ppl ELSE Crowd(addPerson(ppl, TypedNames[1]), n)

\* the members whose row is removed or renamed: the first and the newest
RosterIds(ppl) == {ppl[k].id : k \in {1, Len(ppl)} \cap DOMAIN ppl}

AddPersonAny == \E i \in DOMAIN TypedNames : ClickAddPerson(i, TypedNames[i])

RemovePersonAny ==
  \E id \in RosterIds(people) : ClickRemovePerson(id)

UpdatePersonNameAny ==
  \E id \in RosterIds(people), i \in DOMAIN TypedNames :
    SetPeople("updatePersonName", id,
              updatePersonName(people, id, TypedNames[i]))

InitRoster ==
  /\ year = currentYear
  /\ startDayOfWeek = 2
  /\ startMonth = 11
  /\ tz \in TimeZones
  /\ people \in {DefaultPeople, Crowd(DefaultPeople, MAX_PEOPLE - 1),
                 Crowd(DefaultPeople, MAX_PEOPLE)}
  /\ holidays = <<>>
  /\ schedule = <<>>
  /\ isLoadingHolidays = FALSE
  /\ holidayError = FALSE
  /\ holidayCounts = <<>>
  /\ changed = {"mount"}
  /\ fetches = <<>>
  /\ csvText = <<>>
  /\ last = [op |-> "init", index |-> 0, edited |-> FALSE, cause |-> "init"]
  /\ budget = MaxRosterEvents

SpecRoster ==
  InitRoster /\ [][FlushEffects \/ AddPersonAny \/ RemovePersonAny
                    \/ UpdatePersonNameAny]_vars

(***************************************************************************)
(* The schedule under generation, manual edits, removals and imports, the  *)
(* roster never growing                                                    *)
(***************************************************************************)
\* the user events of one run
MaxCountEvents == 3

InitCount == InitPage /\ budget = MaxCountEvents

SpecCount ==
  InitCount /\ [][FlushEffects \/ FetchSucceeds \/ FetchFails
                   \/ HandleWeekAssignmentChange \/ SaveNotes \/ RemovePerson
                   \/ ExportScheduleCSV \/ ImportScheduleCSV]_vars

(***************************************************************************)
(* One field written into a row and read back by the scanner               *)
(***************************************************************************)
\* the characters of a field text, and its greatest length
FieldChars == {"a", COMMA, QUOTE, " "}
MaxFieldLen == 3
FieldTexts == UNION {[1..n -> FieldChars] : n \in 0..MaxFieldLen}
\* what the other four columns of the row hold
OtherField == <<"x">>

\* row.join(',') over the five escaped fields, text in column col
FieldRow(text, col) ==
  join([k \in 1..Len(CSV_HEADERS) |->
          escapeCSV(IF k = col THEN text ELSE OtherField)], <<COMMA>>)

\* csvText holds the field text, last.index the column it goes to
InitField ==
  /\ year = currentYear
  /\ startMonth = 11
  /\ startDayOfWeek = 2
  /\ people = DefaultPeople
  /\ holidays = <<>>
  /\ tz = 0
  /\ budget = 0
  /\ schedule = <<>>
  /\ isLoadingHolidays = FALSE
  /\ holidayError = FALSE
  /\ holidayCounts = <<>>
  /\ changed = {}
  /\ fetches = <<>>
  /\ csvText \in FieldTexts
  /\ \E col \in 1..Len(CSV_HEADERS) :
       last = [op |-> "field", index |-> col, edited |-> FALSE,
               cause |-> "init"]

\* the row is written: csvText becomes the line of the file
WriteRow ==
  /\ last.op = "field"
  /\ csvText' = FieldRow(csvText, last.index)
  /\ last' = [last EXCEPT !.op = "writeRow"]
  /\ UNCHANGED <<year, startDayOfWeek, startMonth, people, schedule, holidays,
                 isLoadingHolidays, holidayError, holidayCounts, tz, changed,
                 fetches, budget>>

\* the scanner reads the line; the row is kept when it gives as many values
\* as there are headers
ScanRow ==
  /\ last.op = "writeRow"
  /\ last' = [last EXCEPT !.op = IF Len(ScanLine(csvText)) = Len(CSV_HEADERS)
                                  THEN "rowKept" ELSE "rowSkipped"]
  /\ UNCHANGED <<year, startDayOfWeek, startMonth, people, schedule, holidays,
                 isLoadingHolidays, holidayError, holidayCounts, tz, changed,
                 fetches, csvText, budget>>

SpecField == InitField /\ [][WriteRow \/ ScanRow]_vars

(***************************************************************************)
(* The two calendar helpers on every day of a leap year and the month      *)
(* after it                                                                *)
(***************************************************************************)
\* days the helpers are applied to, counted from 1 January of the year
\* before the current one
HelperDays == 400
HelperDates ==
  DateUTC(currentYear - 1, 0, 1) .. (DateUTC(currentYear - 1, 0, 1) + HelperDays - 1)

\* the date at hand is the one entry of the holiday list
InitHelpers ==
  /\ year = currentYear
  /\ startMonth = 11
  /\ startDayOfWeek = 2
  /\ people = DefaultPeople
  /\ \E d \in HelperDates : holidays = <<[date |-> d, name |-> <<"d">>]>>
  /\ tz = 0
  /\ budget = 0
  /\ InitCommon

\* the period around the date, built as getHolidayPeriod builds its own:
\* from getMondayBefore to getFridayAfter
PeriodAround ==
  /\ last.op = "init"
  /\ schedule' = <<[startDate |-> getMondayBefore(holidays[1].date),
                    endDate |-> getFridayAfter(holidays[1].date),
                    assignedTo |-> HolidayPeriod,
                    hasHoliday |-> TRUE,
                    isHolidayPeriod |-> TRUE,
                    notes |-> <<>>]>>
  /\ last' = [last EXCEPT !.op = "period"]
  /\ UNCHANGED <<year, startDayOfWeek, startMonth, people, holidays,
                 isLoadingHolidays, holidayError, holidayCounts, tz, changed,
                 fetches, csvText, budget>>

SpecHelpers == InitHelpers /\ [][PeriodAround]_vars

(***************************************************************************)
(* Import of files written by hand or by other programs                    *)
(***************************************************************************)
\* the header line exportScheduleCSV writes
HeaderLine == join(CSV_HEADERS, <<COMMA>>)
\* header lines the validation accepts: the exported one, and one with blanks
\* around the names
GoodHeaderLines ==
  {HeaderLine, <<" ">> \o join(CSV_HEADERS, <<COMMA, " ">>) \o <<" ">>}
\* header lines with a missing, an extra, a renamed, a reordered, a
\* lower-case and a quoted column name
BadHeaderLines ==
  {join(SubSeq(CSV_HEADERS, 1, 4), <<COMMA>>),
   join(CSV_HEADERS \o <<<<"I", "d">>>>, <<COMMA>>),
   join([CSV_HEADERS EXCEPT ![5] = <<"N", "o", "t", "e">>], <<COMMA>>),
   join([CSV_HEADERS EXCEPT ![4] = CSV_HEADERS[5], ![5] = CSV_HEADERS[4]],
        <<COMMA>>),
   toLowerCase(HeaderLine),
   join([k \in 1..5 |-> <<QUOTE>> \o CSV_HEADERS[k] \o <<QUOTE>>],
        <<COMMA>>)}

\* a data line of five values
DataLine(startText, endText, name, holidayText, notes) ==
  join(<<startText, endText, name, holidayText, notes>>, <<COMMA>>)
DayText(y, m, d) == formatDateYYYYMMDD(DateUTC(y, m, d))
NotADate == <<"n", "/", "a">>

\* data lines the import keeps: weeks of November and December of the
\* current year (one holding the 11 November holiday, one ending on it, one
\* in the blackout) and the first days of the next year
FirstKeptLine ==
  DataLine(DayText(currentYear, 10, 3), DayText(currentYear, 10, 7),
           PersonName(1), <<"X", "m", "a", "s">>, <<"o", "k">>)
KeptLines ==
  {FirstKeptLine,
   DataLine(DayText(currentYear, 10, 10), DayText(currentYear, 10, 14),
            toLowerCase(PersonName(2)), <<>>, <<>>),
   DataLine(DayText(currentYear, 10, 5), DayText(currentYear, 10, 11),
            <<"Z", "o", "e">>, <<>>, <<>>),
   DataLine(DayText(currentYear, 10, 17), DayText(currentYear, 10, 21),
            <<>>, <<>>, <<>>),
   DataLine(DayText(currentYear, 10, 24), DayText(currentYear, 10, 28),
            UnassignedText, <<>>, <<>>),
   DataLine(DayText(currentYear, 11, 1), DayText(currentYear, 11, 5),
            NoOneAvailableText, <<>>, <<>>),
   DataLine(DayText(currentYear, 11, 8), DayText(currentYear, 11, 12),
            HolidayPeriodText, <<>>, <<>>),
   DataLine(DayText(currentYear, 11, 22), DayText(currentYear, 11, 26),
            PersonName(3), <<>>, <<>>),
   DataLine(DayText(currentYear + 1, 0, 1), DayText(currentYear + 1, 0, 2),
            PersonName(1), <<>>, <<>>)}
\* data lines the import skips: four values, six values, a start and an end
\* that are no dates
SkippedLines ==
  {join(<<DayText(currentYear, 10, 3), DayText(currentYear, 10, 7),
          PersonName(1), <<>>>>, <<COMMA>>),
   DataLine(DayText(currentYear, 10, 3), DayText(currentYear, 10, 7),
            PersonName(1), <<>>, <<"a", COMMA, "b">>),
   DataLine(NotADate, DayText(currentYear, 10, 7), PersonName(1), <<>>, <<>>),
   DataLine(DayText(currentYear, 10, 3), NotADate, PersonName(1), <<>>, <<>>)}

\* most data lines in one file
MaxLines == 2
\* files a user may choose: a header line and up to MaxLines data lines, a
\* skipped line between two kept ones, a bad header over a kept line, a
\* leading blank line, CR LF line ends, and files without text or lines
ImportFiles ==
  {join(<<h>> \o rows, <<LF>>) :
     h \in GoodHeaderLines, rows \in SeqsUpTo(KeptLines \cup SkippedLines,
                                              MaxLines)}
  \cup {join(<<HeaderLine, FirstKeptLine, b, c>>, <<LF>>) :
          b \in SkippedLines, c \in KeptLines}
  \cup {join(<<h, l>>, <<LF>>) : h \in BadHeaderLines, l \in KeptLines}
  \cup {<<LF>> \o join(<<HeaderLine, l>>, <<LF>>) : l \in KeptLines}
  \cup {join(<<HeaderLine, l>>, <<CR, LF>>) \o <<CR, LF>> : l \in KeptLines}
  \cup {<<>>, <<LF>>, <<" ", LF, " ">>}

\* the user chooses a file and the page reads it
ImportFile ==
  \E text \in ImportFiles :
    /\ ReadFile(text)
    /\ csvText' = text

\* the settings of a mounted page whose holiday fetch has settled, and one
\* import
InitImport ==
  /\ year = currentYear
  /\ startMonth = 11
  /\ startDayOfWeek = 1
  /\ tz \in TimeZones
  /\ people = DefaultPeople
  /\ holidays \in {<<>>, ApiHolidays(year)}
  /\ budget = 1
  /\ InitCommon

SpecImport == InitImport /\ [][RunGenerate \/ ImportFile \/ FlushEffects]_vars

(***************************************************************************)
(* Properties                                                              *)
(***************************************************************************)
\* the calendar, stated without the Date algorithms: 1 January of year y
Jan1(y) ==
  365 * (y - 1970)
  + ((y - 1) \div 4 - (y - 1) \div 100 + (y - 1) \div 400) - 477
Weekday(d) == (d + 4) % 7
\* the latest day on or before d / earliest day on or after d with weekday w
OnOrBefore(d, w) == CHOOSE x \in (d - 6)..d : Weekday(x) = w
OnOrAfter(d, w) == CHOOSE x \in d..(d + 6) : Weekday(x) = w
BlackoutStart(y) == OnOrBefore(Jan1(y + 1) - 7, 1)
BlackoutEnd(y) == OnOrAfter(Jan1(y + 1), 5)

Generated == last.op = "generate"
Weeks == 1..Len(schedule)
Roster == 1..Len(people)

\* person number k of the roster has a leave interval [s, e] with
\* s <= weekEnd and e >= weekStart
LeaveOverlaps(k, week) ==
  \E j \in 1..Len(people[k].leave) :
    /\ people[k].leave[j].start <= week.endDate
    /\ people[k].leave[j].end >= week.startDate

\* the roster members free of leave during week i
Free(i) == {k \in Roster : ~LeaveOverlaps(k, schedule[i])}

\* the counters of a person before week i, read off the weeks before i
WeeksOf(id, i) == {j \in 1..(i - 1) : schedule[j].assignedTo = Num(id)}
TotalBefore(id, i) == Cardinality(WeeksOf(id, i))
HolidayBefore(id, i) ==
  Cardinality({j \in WeeksOf(id, i) : schedule[j].hasHoliday})
\* zero-based index of the last week before i, -1 standing for minus infinity
LastBefore(id, i) ==
  IF WeeksOf(id, i) = {} THEN -1
  ELSE (CHOOSE j \in WeeksOf(id, i) : \A h \in WeeksOf(id, i) : h <= j) - 1
KeyBefore(id, i) ==
  <<TotalBefore(id, i), HolidayBefore(id, i), LastBefore(id, i)>>
LexLess(a, b) ==
  \/ a[1] < b[1]
  \/ a[1] = b[1] /\ a[2] < b[2]
  \/ a[1] = b[1] /\ a[2] = b[2] /\ a[3] < b[3]

\* C1: after the greedy pass no week is assigned to a person who has a leave
\* interval overlapping the week's span (inclusive at both ends).
C1_NoWeekAssignedDuringLeave ==
  Generated =>
    \A i \in Weeks : \A k \in Roster :
      schedule[i].assignedTo = Num(people[k].id)
        => ~LeaveOverlaps(k, schedule[i])

\* C2: every non-blackout week with somebody free of leave goes to the free
\* person with the least (total, holiday, last index) so far, the earliest of
\* the roster among equals.
C2_LeastLoadedFreePersonChosen ==
  Generated =>
    \A i \in Weeks :
      (~schedule[i].isHolidayPeriod /\ Free(i) # {}) =>
        \E k \in Free(i) :
          /\ schedule[i].assignedTo = Num(people[k].id)
          /\ \A q \in Free(i) \ {k} :
               \/ LexLess(KeyBefore(people[k].id, i), KeyBefore(people[q].id, i))
               \/ /\ KeyBefore(people[k].id, i) = KeyBefore(people[q].id, i)
                  /\ k < q

\* C3: after the greedy pass a non-blackout week holds a roster id or the
\* 'No one available' sentinel, the sentinel exactly when every roster member
\* is on leave that week, and sentinel weeks count for nobody.
C3_SentinelIffEverybodyOnLeave ==
  Generated =>
    /\ \A i \in Weeks :
         ~schedule[i].isHolidayPeriod =>
           /\ \/ schedule[i].assignedTo = NoOneAvailable
              \/ \E k \in Roster : schedule[i].assignedTo = Num(people[k].id)
           /\ schedule[i].assignedTo = NoOneAvailable <=> Free(i) = {}
    /\ \A k \in Roster :
         holidayCounts[people[k].id].total
           = TotalBefore(people[k].id, Len(schedule) + 1)

NobodyHasLeave == \A k \in Roster : people[k].leave = <<>>

\* C4: when nobody has leave, after every week of the greedy pass (and so at
\* its end) the totals of any two roster members differ by at most 1.
C4_TotalsWithinOne ==
  (Generated /\ NobodyHasLeave) =>
    \A i \in 1..(Len(schedule) + 1) : \A a, b \in Roster :
      TotalBefore(people[a].id, i) - TotalBefore(people[b].id, i) <= 1

\* 3 people, no leave, 10 non-blackout weeks: totals 4, 3, 3
C4_Witness ==
  /\ Generated /\ NobodyHasLeave /\ Len(people) = 3
  /\ Cardinality({i \in Weeks : ~schedule[i].isHolidayPeriod}) = 10
  /\ {holidayCounts[people[k].id].total : k \in Roster} = {3, 4}

\* C5: the generated weeks start 7 days apart in increasing order, each ends
\* 6 days after it starts, and each starts inside the selected year.
C5_WeeksContiguousInYear ==
  Generated =>
    \A i \in Weeks :
      /\ schedule[i].endDate = schedule[i].startDate + 6
      /\ i > 1 => schedule[i].startDate = schedule[i - 1].startDate + 7
      /\ Jan1(year) <= schedule[i].startDate
      /\ schedule[i].startDate < Jan1(year + 1)

\* a whole year generated from January: 52 weeks or more, the last one
\* ending in the next year
C5_Witness ==
  /\ Generated /\ startMonth = 0 /\ Len(schedule) >= 52
  /\ schedule[Len(schedule)].endDate >= Jan1(year + 1)

\* C6: a generated week of year Y is flagged isHolidayPeriod exactly when it
\* overlaps [Monday on or before Dec 25 of Y, Friday on or after Jan 1 of Y+1].
C6_FlagIffOverlapsBlackout ==
  Generated =>
    \A i \in Weeks :
      schedule[i].isHolidayPeriod
        <=> /\ schedule[i].startDate <= BlackoutEnd(year)
            /\ schedule[i].endDate >= BlackoutStart(year)

\* a year whose Dec 25 is a Sunday, with flagged and unflagged weeks
C6_Witness ==
  /\ Generated
  /\ Weekday(Jan1(year + 1) - 7) = 0
  /\ \E i, j \in Weeks :
       schedule[i].isHolidayPeriod /\ ~schedule[j].isHolidayPeriod

\* a step of the handler named op
Handled(op) == last'.op = op /\ budget' = budget - 1

\* C7: in every reachable state a week flagged isHolidayPeriod is assigned
\* 'Holiday Period', and a manual reassignment aimed at a flagged week leaves
\* the schedule as it was.
C7_BlackoutWeeksKeepSentinel ==
  /\ [](\A i \in Weeks :
          schedule[i].isHolidayPeriod => schedule[i].assignedTo = HolidayPeriod)
  /\ [][(Handled("assign") /\ schedule[last'.index + 1].isHolidayPeriod)
          => schedule' = schedule]_vars

\* a manual reassignment was aimed at a holiday-period week
C7_Witness ==
  /\ last.op = "assign"
  /\ last.index < Len(schedule)
  /\ schedule[last.index + 1].isHolidayPeriod

\* null and the text 'Unassigned' both read as unassigned
IsUnassigned(a) == a = Null \/ a = Str(UnassignedText)
SameAssignment(a, b) == a = b \/ (IsUnassigned(a) /\ IsUnassigned(b))
\* an assignee the export can name so that the import finds it again
Resolvable(a) == a.t # "number" \/ FindPerson(people, a.n) # 0

\* C8: importing the text exported from the current schedule, with the same
\* roster and holiday list, succeeds and yields as many weeks with the same
\* start and end dates, the same notes and, where the assignee is resolvable,
\* the same assignment (null otherwise).
C8_ExportImportRoundTrip ==
  [][(/\ last'.op \in {"import", "importFailed"}
      /\ budget' = budget - 1
      /\ csvText = ExportCSV(schedule, people, holidays))
       => /\ last'.op = "import"
          /\ Len(schedule') = Len(schedule)
          /\ \A i \in Weeks :
               /\ schedule'[i].startDate = schedule[i].startDate
               /\ schedule'[i].endDate = schedule[i].endDate
               /\ schedule'[i].notes = schedule[i].notes
               /\ IF Resolvable(schedule[i].assignedTo)
                  THEN SameAssignment(schedule'[i].assignedTo,
                                      schedule[i].assignedTo)
                  ELSE schedule'[i].assignedTo = Null]_vars

\* C9 as the specification states it: the effects that follow a removal leave
\* the schedule alone, so the weeks of the removed person stay unassigned and
\* the other weeks keep their assignments and notes.
C9_WeeksStayUnassignedAfterRemoval ==
  [][(last.op = "removePerson" /\ changed # {}) => schedule' = schedule]_vars

\* C9, amended: removePerson drops the roster entry and resets the weeks of
\* that person to unassigned, leaving every other week as it was; the effects
\* of that render then regenerate the whole schedule for the remaining roster
\* (notes emptied, no week unassigned or held by the removed person), unless
\* a holiday fetch is loading, in which case the schedule stays as it is.
C9_RemovalResetsThenRegenerates ==
  [][/\ Handled("removePerson") =>
          /\ people' = SelectSeq(people, LAMBDA p : p.id # last'.index)
          /\ Len(schedule') = Len(schedule)
          /\ \A i \in Weeks :
               schedule'[i] =
                 IF schedule[i].assignedTo = Num(last'.index)
                 THEN [schedule[i] EXCEPT !.assignedTo = Null]
                 ELSE schedule[i]
     /\ (last.op = "removePerson" /\ changed # {}) =>
          IF isLoadingHolidays THEN schedule' = schedule
          ELSE /\ last'.op = "generate"
               /\ schedule' = generateSchedule(year, startMonth, startDayOfWeek,
                                               people, holidays).schedule
               /\ \A i \in 1..Len(schedule') :
                    /\ schedule'[i].notes = <<>>
                    /\ schedule'[i].assignedTo # Null
                    /\ schedule'[i].assignedTo # Num(last.index)]_vars

\* a person holding weeks and notes on the schedule was removed while no
\* fetch was loading, and the schedule has been regenerated since
C9_Witness ==
  /\ last.op = "generate"
  /\ last.cause = "removePerson"
  /\ last.edited
  /\ \A k \in Roster : people[k].id # last.index
  /\ \A i \in Weeks : schedule[i].notes = <<>> /\ schedule[i].assignedTo # Null

\* the state slots whose change the claim names
Settings == {"year", "startDayOfWeek", "startMonth", "people", "holidays"}

\* C10: when the effects run after a change of year, start weekday, start
\* month, roster or holiday list and no holiday fetch is loading, the schedule
\* becomes the one generateSchedule builds from the current settings: no note
\* survives and every week holds what the greedy pass gave it.
C10_ChangeRegeneratesSchedule ==
  [][(changed \cap Settings # {} /\ ~isLoadingHolidays)
       => /\ last'.op = "generate"
          /\ schedule' = generateSchedule(year, startMonth, startDayOfWeek,
                                          people, holidays).schedule
          /\ \A i \in 1..Len(schedule') :
               /\ schedule'[i].notes = <<>>
               /\ schedule'[i].assignedTo # Null]_vars

\* a schedule holding manual edits was regenerated after a settings or
\* roster change
C10_Witness ==
  /\ last.op = "generate"
  /\ last.edited
  /\ last.cause \in {"setYear", "setStartMonth", "setStartDayOfWeek",
                     "addPerson", "addLeave"}

\* the counters of a person read off the whole schedule
CountedTotal(id) == TotalBefore(id, Len(schedule) + 1)
CountedHoliday(id) == HolidayBefore(id, Len(schedule) + 1)

\* C11: when only the recount effect runs (the schedule slot alone changed),
\* the schedule stays exactly as it was, manual assignments and notes
\* included, and only the counters are set, to the counts of that schedule.
C11_RecountLeavesScheduleAlone ==
  [][changed = {"schedule"}
       => /\ schedule' = schedule
          /\ people' = people
          /\ last'.op = "effects"
          /\ \A id \in Ids(people) :
               /\ holidayCounts'[id].total = CountedTotal(id)
               /\ holidayCounts'[id].holiday = CountedHoliday(id)]_vars

\* the recount has run over a schedule that holds a manual assignment or a
\* note the greedy pass would not have produced
C11_Witness ==
  /\ last.op = "effects"
  /\ last.cause \in {"assign", "saveNotes"}
  /\ last.edited
  /\ schedule # generateSchedule(year, startMonth, startDayOfWeek, people,
                                 holidays).schedule

\* C12: the counters the greedy pass returns are, for every roster member,
\* the number of weeks assigned to that person and the number of those with
\* hasHoliday, and they equal the recount of the schedule it returns.
C12_GreedyCountersAreTheRecount ==
  Generated =>
    /\ DOMAIN holidayCounts = Ids(people)
    /\ \A id \in Ids(people) :
         /\ holidayCounts[id].total = CountedTotal(id)
         /\ holidayCounts[id].holiday = CountedHoliday(id)
    /\ holidayCounts = recalculateAssignments(schedule, people)

\* somebody holds several weeks, one of them with a holiday
C12_Witness ==
  /\ Generated
  /\ \E id \in Ids(people) :
       holidayCounts[id].total >= 2 /\ holidayCounts[id].holiday >= 1

\* C13: the recount effect that follows a manual assignment (whose handler
\* has already recounted the same schedule and roster) yields the same
\* counters again: the counts of the schedule, built from zero.
C13_RecountTwiceSameCounters ==
  [][(last.op = "assign" /\ changed = {"schedule"})
       => /\ holidayCounts' = holidayCounts
          /\ \A id \in Ids(people) :
               /\ holidayCounts'[id].total = CountedTotal(id)
               /\ holidayCounts'[id].holiday = CountedHoliday(id)]_vars

\* handler and effect have both recounted after a manual assignment that
\* gave somebody a second week
C13_Witness ==
  /\ last.op = "effects"
  /\ last.cause = "assign"
  /\ \E id \in Ids(people) : holidayCounts[id].total >= 2

\* C14: every run of generateSchedule happens while no holiday fetch is in
\* flight and works on the result of the fetch for the selected year: the
\* fetched list, or the empty list with the error set when the fetch failed.
C14_GenerationWaitsForFetch ==
  [][last'.op = "generate"
       => /\ fetches' = <<>>
          /\ ~isLoadingHolidays'
          /\ \/ holidays = ApiHolidays(year)
             \/ holidays = <<>> /\ holidayError]_vars

\* C15: a failed holiday fetch empties the holiday list, sets the error and
\* clears the loading flag; the effects that follow generate a schedule from
\* the empty list (hasHoliday false on every week), and they always follow.
C15_FailedFetchStillGenerates ==
  /\ [][last'.op = "fetchFailed"
          => holidays' = <<>> /\ holidayError' /\ ~isLoadingHolidays']_vars
  /\ [][last.op = "fetchFailed"
          => /\ last'.op = "generate"
             /\ Len(schedule') > 0
             /\ \A i \in 1..Len(schedule') : ~schedule'[i].hasHoliday]_vars
  /\ (last.op = "fetchFailed"
        ~> (last.op = "generate" /\ last.cause = "fetchFailed"))

\* a schedule generated after a failed fetch, the error on display
C15_Witness ==
  /\ last.op = "generate"
  /\ last.cause = "fetchFailed"
  /\ holidayError
  /\ holidays = <<>>
  /\ Len(schedule) > 0

(***************************************************************************)
(* Import of a chosen file                                                 *)
(***************************************************************************)
\* a step that read a file, and its two outcomes
ImportStep == last'.op \in {"import", "importFailed"}
Imported == last'.op = "import"
Rejected == last'.op = "importFailed"
NothingImported == schedule' = schedule /\ holidayCounts' = holidayCounts

\* the lines of a file that hold more than blanks, and the column names its
\* first such line gives once cut at the commas and stripped of blanks
NonBlankLines(text) == SelectSeq(SplitLines(text), LAMBDA l : trim(l) # <<>>)
ColumnNames(text) ==
  LET first == NonBlankLines(text)[1]
      cut == SplitAt(first, {i \in 1..Len(first) : first[i] = COMMA})
  IN  [k \in 1..Len(cut) |-> trim(cut[k])]
HasColumnNames(text) ==
  Len(NonBlankLines(text)) > 0 /\ ColumnNames(text) = CSV_HEADERS

\* C16 as stated: an import is rejected as a whole unless the first line of
\* the file is exactly 'Week Start Date,Week End Date,Assigned To,Holidays,
\* Notes', and a rejected import leaves the schedule and the counters as they
\* were.
C16_OnlyExactHeaderLineAccepted ==
  [][ImportStep
       => /\ SplitLines(csvText')[1] # HeaderLine => Rejected
          /\ Rejected => NothingImported]_vars

\* C16: an import is rejected as a whole unless the first non-blank line of
\* the file, cut at the commas with the blanks around each name removed, gives
\* the five column names in their order (a missing, extra, renamed or
\* reordered column is never accepted), and a rejected import leaves the
\* schedule and the counters as they were.
C16_ColumnNamesDecideAcceptance ==
  [][ImportStep
       => /\ ~HasColumnNames(csvText') => Rejected
          /\ Rejected => NothingImported]_vars

\* a file with a wrong column name over a data line was rejected while a
\* schedule was on the page
C16_Witness ==
  /\ last.op = "importFailed"
  /\ Len(NonBlankLines(csvText)) = 2
  /\ Len(ColumnNames(csvText)) = Len(CSV_HEADERS)
  /\ ColumnNames(csvText) # CSV_HEADERS
  /\ Len(schedule) > 0

\* the data lines of a file: its non-blank lines after the first
DataLines(text) ==
  LET lines == NonBlankLines(text)
  IN  SubSeq(lines, 2, Len(lines))
\* a data line is retained when it gives five values whose first two are dates
Retained(line) ==
  /\ Len(ScanLine(line)) = 5
  /\ ParseDate(ScanLine(line)[1]) # NaN
  /\ ParseDate(ScanLine(line)[2]) # NaN
RetainedLines(text) == SelectSeq(DataLines(text), Retained)

\* C17: when the file is empty, has no data row, or has only data rows that
\* are skipped, the import fails and the schedule and the counters stay as
\* they were before the import.
C17_NothingToImportFails ==
  [][(ImportStep /\ (\/ Len(csvText') = 0
                     \/ Len(DataLines(csvText')) = 0
                     \/ Len(RetainedLines(csvText')) = 0))
       => Rejected /\ NothingImported]_vars

\* a file with the right header whose data lines were all skipped was
\* rejected while a schedule was on the page
C17_Witness ==
  /\ last.op = "importFailed"
  /\ HasColumnNames(csvText)
  /\ Len(DataLines(csvText)) = MaxLines
  /\ Len(RetainedLines(csvText)) = 0
  /\ Len(schedule) > 0
  /\ \E id \in Ids(people) : holidayCounts[id].total > 0

\* the week a retained line stands for: its two dates and its notes
WeekOfValues(week, values) ==
  /\ week.startDate = ParseDate(values[1])
  /\ week.endDate = ParseDate(values[2])
  /\ week.notes = values[5]
\* weeks that are the retained lines, one week per line, in their order
WeeksOfRetained(weeks, retained) ==
  /\ Len(weeks) = Len(retained)
  /\ \A k \in 1..Len(weeks) : WeekOfValues(weeks[k], ScanLine(retained[k]))

\* C18: a data row that does not give five values, or whose start or end
\* date does not parse, is skipped without aborting the import: a file with
\* the column names and at least one other row is imported, and the schedule
\* then holds exactly one week per retained row, in the order of the file,
\* with the dates and the notes of that row.
C18_SkippedRowsDoNotAbort ==
  [][(ImportStep /\ HasColumnNames(csvText'))
       => \/ Len(RetainedLines(csvText')) = 0
          \/ /\ Imported
             /\ WeeksOfRetained(schedule', RetainedLines(csvText'))]_vars

\* a file with a skipped line between two retained lines was imported as two
\* weeks, the second being the week of the third line
C18_Witness ==
  /\ last.op = "import"
  /\ Len(DataLines(csvText)) = 3
  /\ ~Retained(DataLines(csvText)[2])
  /\ Len(schedule) = 2
  /\ schedule[1].startDate # schedule[2].startDate
  /\ schedule[2].startDate = ParseDate(ScanLine(DataLines(csvText)[3])[1])

\* roster members whose name is the text, letter case set aside
Namesakes(text) ==
  {p \in Roster : toLowerCase(people[p].name) = toLowerCase(text)}
\* the assignee an Assigned To text stands for
AssigneeOfText(assignee, text) ==
  IF Namesakes(text) # {}
  THEN \E p \in Namesakes(text) : assignee = Num(people[p].id)
  ELSE IF text \in {HolidayPeriodText, NoOneAvailableText, UnassignedText}
       THEN assignee = Str(text)
       ELSE assignee = Null
\* every week outside the blackout holds the assignee its line names
AssigneesOfRetained(weeks, retained) ==
  \A k \in 1..Len(weeks) :
    weeks[k].isHolidayPeriod
    \/ AssigneeOfText(weeks[k].assignedTo, ScanLine(retained[k])[3])
\* some week is assigned to a member whose name the line writes differently
SomeNamesakeResolved(weeks, retained) ==
  \E k \in 1..Len(weeks) :
    /\ weeks[k].assignedTo.t = "number"
    /\ \A p \in Roster : people[p].name # ScanLine(retained[k])[3]

\* C19: on import the Assigned To text of a row becomes the id of the roster
\* member whose name equals it ignoring case; with no such member the texts
\* 'Holiday Period', 'No one available' and 'Unassigned' are kept as they
\* are, and the empty text and every other text become null.
C19_AssignedToResolves ==
  [][(Imported /\ Len(schedule') = Len(RetainedLines(csvText')))
       => AssigneesOfRetained(schedule', RetainedLines(csvText'))]_vars

\* an imported week is assigned to the member a lower-case name stands for
C19_Witness ==
  /\ last.op = "import"
  /\ Len(schedule) = Len(RetainedLines(csvText))
  /\ SomeNamesakeResolved(schedule, RetainedLines(csvText))

\* the calendar year a day lies in
YearOf(d) ==
  CHOOSE y \in BaseYear..(BaseYear + SCHEDULE_YEAR_RANGE) :
    Jan1(y) <= d /\ d < Jan1(y + 1)
\* the flags and the assignment the dates of a week and a holiday list call
\* for: blackout of the start date's year, a holiday within the week
FlagsOfDates(week, holidayList) ==
  /\ week.isHolidayPeriod
       <=> /\ week.startDate <= BlackoutEnd(YearOf(week.startDate))
           /\ week.endDate >= BlackoutStart(YearOf(week.startDate))
  /\ week.hasHoliday
       <=> \E h \in 1..Len(holidayList) :
             /\ week.startDate <= holidayList[h].date
             /\ holidayList[h].date <= week.endDate
  /\ week.isHolidayPeriod => week.assignedTo = HolidayPeriod

\* C20: on import isHolidayPeriod is derived from the dates of the row and
\* the blackout window of the start date's year, hasHoliday from the dates
\* and the holiday list held at the time; the text of the Holidays column
\* has no part in either, and a row in the blackout window is assigned
\* 'Holiday Period' whatever its Assigned To text.
C20_FlagsRederivedOnImport ==
  [][Imported
       => \A k \in 1..Len(schedule') : FlagsOfDates(schedule'[k], holidays)]_vars

(***************************************************************************)
(* Export                                                                  *)
(***************************************************************************)
\* the text that stands for an assignee in the Assigned To column: the name
\* of the member, the sentinel text, nothing for an unassigned week
AssignedToText(assignee) ==
  IF assignee.t = "number"
  THEN people[CHOOSE p \in Roster : people[p].id = assignee.n].name
  ELSE IF assignee.t = "string" THEN assignee.s
  ELSE <<>>
\* the first three columns of the row a week is written as
RowStart(week) ==
  join(<<formatDateYYYYMMDD(week.startDate), formatDateYYYYMMDD(week.endDate),
         escapeCSV(AssignedToText(week.assignedTo))>>, <<COMMA>>) \o <<COMMA>>
StartsWith(line, start) ==
  Len(line) >= Len(start) /\ SubSeq(line, 1, Len(start)) = start
\* every week is written, in its line, with the text of its assignee
RowsNameAssignees(lines, weeks) ==
  /\ Len(lines) = Len(weeks) + 1
  /\ \A k \in 1..Len(weeks) :
       (weeks[k].assignedTo.t = "number"
          => \E p \in Roster : people[p].id = weeks[k].assignedTo.n)
       => StartsWith(lines[k + 1], RowStart(weeks[k]))

\* C21: the export writes the Assigned To column of a week as the name of the
\* person it is assigned to, as the sentinel text for a sentinel assignment,
\* and as the empty text for an unassigned (null) week.
C21_AssignedToColumnEncoding ==
  [][last'.op = "export"
       => RowsNameAssignees(SplitLines(csvText'), schedule)]_vars

(***************************************************************************)
(* Leave                                                                   *)
(***************************************************************************)
\* the last event was an addLeave that was refused: the end lies before the
\* start, or the person already has the interval
LeaveRefused == last.cause \in {"addLeaveRejected", "addLeaveDuplicate"}

\* C22: an addLeave that is rejected, because the end date lies before the
\* start date or because the person already has the interval, changes
\* nothing: the roster stays as it was and the schedule, with its manual
\* reassignments and notes, is neither rebuilt nor altered, in the handler
\* and in the effects that run after it.
C22_RejectedLeaveChangesNothing ==
  [][LeaveRefused' => people' = people /\ schedule' = schedule]_vars

\* C23: after any sequence of addLeave and removeLeave every stored leave
\* interval has start <= end and no person holds two intervals with the same
\* start and the same end; a removeLeave with an index outside the list
\* leaves the leave lists as they were.
C23_LeaveListsStayValid ==
  /\ [](\A p \in Roster :
          \A j \in 1..Len(people[p].leave) :
            /\ people[p].leave[j].start <= people[p].leave[j].end
            /\ \A k \in 1..Len(people[p].leave) :
                 people[p].leave[j] = people[p].leave[k] => j = k)
  /\ [][last'.op = "removeLeaveOutOfRange" => people' = people]_vars

\* a removeLeave with an index outside the list met a roster in which one
\* person holds MaxStoredLeave intervals and another none
C23_Witness ==
  /\ last.op = "removeLeaveOutOfRange"
  /\ \E p \in Roster : Len(people[p].leave) = MaxStoredLeave
  /\ \E p \in Roster : Len(people[p].leave) = 0

(***************************************************************************)
(* The generated year                                                      *)
(***************************************************************************)
\* the calendar again, by table: days of a common year before month m (zero-
\* based), the leap day, the first day of a month and of the month after it
DaysBefore == <<0, 31, 59, 90, 120, 151, 181, 212, 243, 273, 304, 334>>
LeapYear(y) == Jan1(y + 1) - Jan1(y) = 366
MonthStart(y, m) ==
  Jan1(y) + DaysBefore[m + 1] + (IF m >= 2 /\ LeapYear(y) THEN 1 ELSE 0)
MonthEnd(y, m) == IF m = 11 THEN Jan1(y + 1) - 1 ELSE MonthStart(y, m + 1) - 1

\* the weeks are those that start at the anchor and every 7 days after it up
\* to the end of the year, in that order
WeeksFromAnchor(anchor) ==
  /\ MonthStart(year, startMonth) <= anchor
  /\ \A i \in Weeks : schedule[i].startDate = anchor + 7 * (i - 1)
  /\ {schedule[i].startDate : i \in Weeks}
       = {d \in anchor..(Jan1(year + 1) - 1) : (d - anchor) % 7 = 0}
  /\ schedule[Len(schedule)].startDate + 7 >= Jan1(year + 1)
  /\ schedule[Len(schedule)].startDate + 7 < Jan1(year + 2)

\* C24: the generator emits exactly the weeks that start at the anchor and
\* every 7 days after it while the start date lies in the selected year: none
\* is left out, the start of the last week plus 7 days lies in the next year
\* (its end date may do so too), and no week starts before the first day of
\* the start month.
C24_EveryWeekOfYearEmitted ==
  Generated => Len(schedule) > 0 /\ WeeksFromAnchor(schedule[1].startDate)

\* 2025 from July: 26 weeks from July to December, the last one ending
\* in January 2026
C24_Witness ==
  /\ Generated /\ year = 2025 /\ startMonth = 6
  /\ schedule[1].startDate <= MonthEnd(year, 6)
  /\ Len(schedule) = 26
  /\ schedule[Len(schedule)].endDate >= Jan1(year + 1)

\* C25: for every year, start month and start weekday the first generated
\* week starts on the earliest date on or after the first day of the start
\* month that falls on the start weekday, and that date lies in the start
\* month.
C25_FirstWeekStart ==
  Generated =>
    /\ Len(schedule) > 0
    /\ schedule[1].startDate
         = OnOrAfter(MonthStart(year, startMonth), startDayOfWeek)
    /\ schedule[1].startDate <= MonthEnd(year, startMonth)

\* 2025, January, Tuesday: the first week starts on 2025-01-07
C25_Witness ==
  /\ Generated /\ year = 2025 /\ startMonth = 0 /\ startDayOfWeek = 2
  /\ schedule[1].startDate = Jan1(2025) + 6

\* C26: for every schedule year Y the blackout window runs from the Monday
\* on or before 25 December of Y to the Friday on or after 1 January of Y+1:
\* the start is a Monday at most 6 days before 25 December, the end a Friday
\* at most 6 days after 1 January.
C26_BlackoutWindow ==
  Generated =>
    /\ Weekday(getHolidayPeriod(year).start) = 1
    /\ getHolidayPeriod(year).start \in (Jan1(year + 1) - 13)..(Jan1(year + 1) - 7)
    /\ Weekday(getHolidayPeriod(year).end) = 5
    /\ getHolidayPeriod(year).end \in Jan1(year + 1)..(Jan1(year + 1) + 6)
    /\ \A i \in Weeks :
         schedule[i].isHolidayPeriod
           <=> /\ schedule[i].startDate <= getHolidayPeriod(year).end
               /\ schedule[i].endDate >= getHolidayPeriod(year).start

\* 2025: the window runs from 2025-12-22 to 2026-01-02 and weeks are flagged
C26_Witness ==
  /\ Generated /\ year = 2025
  /\ getHolidayPeriod(year).start = Jan1(2026) - 10
  /\ getHolidayPeriod(year).end = Jan1(2026) + 1
  /\ \E i \in Weeks : schedule[i].isHolidayPeriod

\* C27: every generated and every imported week has hasHoliday true exactly
\* when some date of the holiday list lies between the week's start and end
\* dates, both included; with an empty list no week has it.
C27_HasHolidayIffHolidayInWeek ==
  last.op \in {"generate", "import"} =>
    \A i \in Weeks :
      schedule[i].hasHoliday
        <=> \E h \in 1..Len(holidays) :
              /\ schedule[i].startDate <= holidays[h].date
              /\ holidays[h].date <= schedule[i].endDate

(***************************************************************************)
(* Balance of the greedy pass                                              *)
(***************************************************************************)
\* the spread of the totals: the largest minus the smallest
SpreadOf(totals) ==
  IF totals = {} THEN 0
  ELSE (CHOOSE x \in totals : \A y \in totals : y <= x)
       - (CHOOSE x \in totals : \A y \in totals : x <= y)
Spread == SpreadOf({holidayCounts[people[k].id].total : k \in Roster})
\* the holder of week i, as a roster position
Holder(i, k) == schedule[i].assignedTo = Num(people[k].id)
\* weeks i and j, held by a and b in some way, change hands between the two:
\* the total of member k afterwards
TotalAfter(k, i, j, a, b) ==
  holidayCounts[people[k].id].total
  + (IF k = a THEN (IF Holder(i, b) THEN 1 ELSE 0) + (IF Holder(j, b) THEN 1 ELSE 0)
                   - (IF Holder(i, a) THEN 1 ELSE 0) - (IF Holder(j, a) THEN 1 ELSE 0)
     ELSE IF k = b THEN (IF Holder(i, a) THEN 1 ELSE 0) + (IF Holder(j, a) THEN 1 ELSE 0)
                        - (IF Holder(i, b) THEN 1 ELSE 0) - (IF Holder(j, b) THEN 1 ELSE 0)
     ELSE 0)
\* the new holder of a week gets no week that overlaps their leave
HandoverAllowed(i, a, b) ==
  /\ Holder(i, a) => ~LeaveOverlaps(b, schedule[i])
  /\ Holder(i, b) => ~LeaveOverlaps(a, schedule[i])
\* no handing over of two assigned weeks between two people (an exchange, or
\* both weeks of one going to the other) that respects leave gives a
\* strictly smaller spread
NoBetterReassignment ==
  \A i, j \in Weeks : \A a, b \in Roster :
    (/\ i < j /\ a # b
     /\ Holder(i, a) \/ Holder(i, b)
     /\ Holder(j, a) \/ Holder(j, b)
     /\ HandoverAllowed(i, a, b) /\ HandoverAllowed(j, a, b))
    => SpreadOf({TotalAfter(k, i, j, a, b) : k \in Roster}) >= Spread

\* C28 as stated: after a full greedy run no reassignment of two assigned
\* weeks between two people strictly reduces the spread of the per-person
\* totals without giving someone a week that overlaps their leave.
C28_NoReassignmentReducesSpread == Generated => NoBetterReassignment

\* C28: after a full greedy run over a roster in which nobody has leave, no
\* reassignment of two assigned weeks between two people strictly reduces
\* the spread of the per-person totals.
C28_NoReassignmentReducesSpreadWithoutLeave ==
  (Generated /\ NobodyHasLeave) => NoBetterReassignment

\* three people without leave, the first holding two weeks or more, the
\* totals one apart
C28_Witness ==
  /\ Generated /\ NobodyHasLeave /\ Len(people) = 3 /\ Spread = 1
  /\ \E i, j \in Weeks : i < j /\ Holder(i, 1) /\ Holder(j, 1)
  /\ \E i \in Weeks : Holder(i, 3)


(***************************************************************************)
(* The roster under addPerson, removePerson and updatePersonName           *)
(***************************************************************************)
IdsDistinct(ppl) ==
  \A j, k \in 1..Len(ppl) : j # k => ppl[j].id # ppl[k].id
IdSeq(ppl) == [k \in 1..Len(ppl) |-> ppl[k].id]
\* seq without its entries equal to x
Without(seq, x) == SelectSeq(seq, LAMBDA y : y # x)
Blank(name) == \A k \in 1..Len(name) : name[k] \in WhiteSpace
AddClicked == last'.op \in {"addPerson", "addPersonIgnored"}

\* the members of before keep their place, id and leave in after, which has
\* one more member, whose id nobody of before has
JoinedBy(before, after) ==
  /\ Len(after) = Len(before) + 1
  /\ SubSeq(after, 1, Len(before)) = before
  /\ after[Len(after)].id \notin Ids(before)

\* C29: after any sequence of addPerson, removePerson and rename operations
\* the roster ids are pairwise distinct and the roster holds at most
\* MAX_PEOPLE people; a step leaves every member who stays with the id held
\* before (a rename keeps all ids in place, a removal takes out the removed id
\* only, an addition appends one member with an id nobody holds); and
\* addPerson with a blank name or on a full roster changes nothing
C29_RosterIdsDistinctAndStable ==
  /\ [](IdsDistinct(people) /\ Len(people) <= MAX_PEOPLE)
  /\ [][/\ last'.op = "updatePersonName" => IdSeq(people') = IdSeq(people)
        /\ last'.op = "removePerson" =>
             IdSeq(people') = Without(IdSeq(people), last'.index)
        /\ last'.op = "addPerson" => JoinedBy(people, people')
        /\ (AddClicked /\ (Blank(TypedNames[last'.index])
                             \/ Len(people) = MAX_PEOPLE)) =>
             /\ last'.op = "addPersonIgnored"
             /\ UNCHANGED <<people, schedule, changed, holidays,
                            holidayCounts, isLoadingHolidays>>]_vars

\* a name was typed when the roster was full, after a member had been
\* removed and another added
C29_Witness ==
  /\ last.op = "addPersonIgnored"
  /\ ~Blank(TypedNames[last.index])
  /\ Len(people) = MAX_PEOPLE
  /\ IdSeq(people) # [k \in 1..MAX_PEOPLE |-> k]


(***************************************************************************)
(* Holiday fetches that overlap                                            *)
(***************************************************************************)
\* every fetch has settled, none of them failed since the last one started,
\* and the effects of the last commit have run
FetchesSettled == fetches = <<>> /\ Idle /\ ~holidayError /\ ~isLoadingHolidays

\* C30: once all fetches have settled, the holiday list is the one fetched
\* for the currently selected year, whatever order the responses arrived in
C30_HolidaysOfSelectedYear ==
  (FetchesSettled /\ last.op # "init") => holidays = ApiHolidays(year)


(***************************************************************************)
(* Leave and the schedule as the user edits it                             *)
(***************************************************************************)
\* C31: in every schedule state (the effects of the last commit having run),
\* including after a manual reassignment and after a CSV import, no week is
\* assigned to a roster member who has a leave interval overlapping that week
C31_NobodyOnDutyDuringLeave ==
  Idle =>
    \A i \in Weeks : \A k \in Roster :
      schedule[i].assignedTo = Num(people[k].id)
        => ~LeaveOverlaps(k, schedule[i])


(***************************************************************************)
(* The counters once the effects have run                                  *)
(***************************************************************************)
\* the stored counters are those of the roster members, each the count of
\* the weeks of the current schedule assigned to that id
CountersAreCounted ==
  /\ DOMAIN holidayCounts = Ids(people)
  /\ \A id \in Ids(people) :
       /\ holidayCounts[id].total = CountedTotal(id)
       /\ holidayCounts[id].holiday = CountedHoliday(id)
       /\ holidayCounts[id].holiday <= holidayCounts[id].total

\* C32: whenever all pending effects have run, the stored counters equal the
\* recount of the current schedule over the current roster: total = weeks
\* assigned to that id, holiday = those of them with hasHoliday, holiday <=
\* total, and weeks holding a sentinel, null or a non-roster id count for
\* nobody
C32_CountersMatchScheduleWhenIdle ==
  (Idle /\ last.op # "init") =>
    /\ CountersAreCounted
    /\ holidayCounts = recalculateAssignments(schedule, people)


\* a schedule holding a manual edit was imported and recounted: somebody
\* holds two weeks or more and somebody else none
C32_Witness ==
  /\ Idle
  /\ last.op = "effects"
  /\ last.cause = "import"
  /\ last.edited
  /\ \E id \in Ids(people) : holidayCounts[id].total >= 2
  /\ \E id \in Ids(people) : holidayCounts[id].total = 0


(***************************************************************************)
(* Blackout spans and the weeks of a generated year                        *)
(***************************************************************************)
\* week has a day in the blackout span that begins in December of y
TouchesBlackoutOf(week, y) ==
  week.startDate <= BlackoutEnd(y) /\ week.endDate >= BlackoutStart(y)

\* C33: no duty is assigned during a blackout period: no generated week with
\* a day of a blackout span (Monday on or before Dec 25 through Friday on or
\* after the following Jan 1) is assigned to a person, for the December weeks
\* and for the first days of January that belong to the span begun the
\* previous December
C33_NoDutyDuringAnyBlackoutSpan ==
  Generated =>
    \A i \in Weeks :
      (TouchesBlackoutOf(schedule[i], year)
         \/ TouchesBlackoutOf(schedule[i], year - 1))
        => schedule[i].assignedTo.t # "number"


(***************************************************************************)
(* escapeCSV and the import scanner                                        *)
(***************************************************************************)
\* C34: for every field text without a line break, writing it with escapeCSV
\* into a 5-column row and parsing that row with the import scanner returns
\* the same text (up to surrounding whitespace) and still 5 columns, also
\* when the text contains commas or double quotes
C34_FieldSurvivesRow ==
  [][last'.op = "writeRow"
       => /\ Len(ScanLine(csvText')) = Len(CSV_HEADERS)
          /\ ScanLine(csvText')[last.index] = trim(csvText)]_vars


(***************************************************************************)
(* The 'Holiday Period' sentinel and the isHolidayPeriod flag              *)
(***************************************************************************)
\* C35: in every schedule state, also after a CSV import, a week holds the
\* 'Holiday Period' sentinel only if its isHolidayPeriod flag is true
C35_SentinelOnlyOnFlaggedWeeks ==
  \A i \in Weeks :
    schedule[i].assignedTo = HolidayPeriod => schedule[i].isHolidayPeriod


\* C36: in every generated schedule the blackout weeks form a non-empty
\* contiguous suffix: the last generated week is blackout and no non-blackout
\* week follows a blackout week
C36_BlackoutWeeksAreASuffix ==
  Generated =>
    /\ Len(schedule) > 0
    /\ schedule[Len(schedule)].isHolidayPeriod
    /\ \A i, j \in Weeks :
         (i < j /\ schedule[i].isHolidayPeriod) => schedule[j].isHolidayPeriod

\* a year whose last three generated weeks are blackout weeks, after weeks
\* that are not
C36_Witness ==
  /\ Generated
  /\ Cardinality({i \in Weeks : schedule[i].isHolidayPeriod}) = 3
  /\ \E i \in Weeks : ~schedule[i].isHolidayPeriod


(***************************************************************************)
(* getMondayBefore and getFridayAfter on their own                         *)
(***************************************************************************)
\* the date the helpers were applied to, and what they returned
AtHand == holidays[1].date
MondayFound == schedule[1].startDate
FridayFound == schedule[1].endDate

\* C37: for every date getMondayBefore returns a Monday on or before the
\* date and at most 6 days earlier, the date itself when it is a Monday: it
\* subtracts (dayOfWeek + 6) mod 7 days, 0 being Sunday
C37_MondayOnOrBefore ==
  last.op = "period" =>
    /\ Weekday(MondayFound) = 1
    /\ MondayFound <= AtHand
    /\ AtHand - MondayFound <= 6
    /\ Weekday(AtHand) = 1 => MondayFound = AtHand
    /\ AtHand - MondayFound = (Weekday(AtHand) + 6) % 7

\* a Sunday, the first of its month: the Monday is 6 days earlier, in the
\* month before
C37_Witness ==
  /\ last.op = "period"
  /\ Weekday(AtHand) = 0
  /\ getUTCDate(AtHand) = 1
  /\ MondayFound = AtHand - 6

\* C38: for every date getFridayAfter returns a Friday on or after the date
\* and at most 6 days later: it never moves backward, returns the date itself
\* on a Friday and maps a Saturday to the Friday 6 days later
C38_FridayOnOrAfter ==
  last.op = "period" =>
    /\ Weekday(FridayFound) = 5
    /\ FridayFound >= AtHand
    /\ FridayFound - AtHand <= 6
    /\ Weekday(AtHand) = 5 => FridayFound = AtHand
    /\ Weekday(AtHand) = 6 => FridayFound = AtHand + 6

\* a Saturday in the last days of December: the Friday is 6 days later, in
\* the next year
C38_Witness ==
  /\ last.op = "period"
  /\ Weekday(AtHand) = 6
  /\ FridayFound = AtHand + 6
  /\ getUTCFullYear(FridayFound) = getUTCFullYear(AtHand) + 1


(***************************************************************************)
(* The two loops of generateSchedule                                       *)
(***************************************************************************)
\* the anchor search of the generation for the selected settings
SearchDone ==
  AnchorTrace(DateUTC(year, startMonth, 1), year, startMonth, startDayOfWeek, 0)

====
